---- MODULE Spec2Model ----
(***************************************************************************)
(* Verification model of tenma-serial: the Tenma 72-XXXX protocol driver   *)
(* (tenma/devices/tenma_72_base.py, tenma/devices/tenma_72_devices.py),    *)
(* its serial transport (tenma/devices/serial_handler.py) and the model    *)
(* resolver (tenma/tenmaDcLib.py), run against a simulated power supply.   *)
(*                                                                         *)
(* Quantities are integers in thousandths (mV, mA).  A Python float that   *)
(* comes out of "reading * 1000" is the record [n, e]: the integer n it is *)
(* meant to be and the sign e of its IEEE-754 rounding error.              *)
(***************************************************************************)
EXTENDS Integers, Sequences, FiniteSets, TLC

(* ------------------------------ bounds -------------------------------- *)
\* number of consecutive sample magnitudes tried above the sample bases
NSamples == 2
\* channel arguments tried are 0..MaxChannelArg
MaxChannelArg == 4
\* memory slot arguments tried are 0..MaxConfArg
MaxConfArg == 6

(* ------------------------- model descriptors -------------------------- *)
Models ==
  {"72-2540", "72-2535", "72-2545", "72-2550", "72-2930", "72-2705",
   "72-2940", "72-13320", "72-13330", "72-13360"}

\* which class body supplies the methods of a variant
Family(m) ==
  CASE m \in {"72-13320", "72-13330"} -> "multi"
    [] m = "72-13360" -> "rs485"
    [] OTHER -> "base"

NCHANNELS(m) ==
  IF Family(m) = "multi" THEN 3 ELSE 1

NCONFS(m) ==
  IF Family(m) = "multi" THEN 0 ELSE 5

MAX_MA(m) ==
  CASE m = "72-2540" -> 5100
    [] m = "72-2535" -> 3000
    [] m = "72-2545" -> 2000
    [] m = "72-2550" -> 3000
    [] m = "72-2930" -> 10000
    [] m = "72-2705" -> 3100
    [] m = "72-2940" -> 5000
    [] m = "72-13320" -> 3000
    [] m = "72-13330" -> 5000
    [] m = "72-13360" -> 15000

MAX_MV(m) ==
  CASE m = "72-2540" -> 31000
    [] m = "72-2535" -> 30000
    [] m = "72-2545" -> 60000
    [] m = "72-2550" -> 60000
    [] m = "72-2930" -> 30000
    [] m = "72-2705" -> 31000
    [] m = "72-2940" -> 60000
    [] m = "72-13320" -> 30000
    [] m = "72-13330" -> 30000
    [] m = "72-13360" -> 60000

\* the voltages channel 3 of the three-channel models accepts
Ch3Presets == {2500, 3300, 5000}

(* ----------------------- Python float arithmetic ---------------------- *)
\* 2^e for e >= 0
RECURSIVE Pow2(_)
Pow2(e) == IF e = 0 THEN 1 ELSE 2 * Pow2(e - 1)

\* 2^e mod q, e >= 0
RECURSIVE Pow2Mod(_, _)
Pow2Mod(e, q) == IF e = 0 THEN 1 % q ELSE (2 * Pow2Mod(e - 1, q)) % q

\* floor(log2(n / 1000)) for n >= 1000, searching upwards from a
RECURSIVE BinadeUp(_, _)
BinadeUp(n, a) == IF n < 2000 * Pow2(a) THEN a ELSE BinadeUp(n, a + 1)

\* -floor(log2(n / 1000)) for 0 < n < 1000, searching downwards; k = -a
RECURSIVE BinadeDown(_, _)
BinadeDown(n, k) == IF n * Pow2(k) >= 1000 THEN k ELSE BinadeDown(n, k + 1)

\* binary exponent of the double nearest n/1000 (n > 0)
UnitBinade(n) == IF n >= 1000 THEN BinadeUp(n, 0) ELSE 0 - BinadeDown(n, 1)

\* binary exponent of n itself, floor(log2 n) (n > 0)
RECURSIVE MilliBinade(_, _)
MilliBinade(n, b) == IF n < Pow2(b + 1) THEN b ELSE MilliBinade(n, b + 1)

\* float("n/1000") has the 53-bit significand round(n * 2^(52-a) / 1000);
\* the remainder of n * 2^(49-a) modulo 125 says how far, in 1/125 of a
\* unit in the last place, the decimal lies above the significand below it
Rem125(n) == (n * Pow2Mod(49 - UnitBinade(n), 125)) % 125

\* sign of float("n/1000") * 1000 - n in IEEE-754 double arithmetic:
\* the parse error of at most half an ulp is multiplied by 1000 and the
\* product is rounded again; the error survives when it exceeds half an
\* ulp of the product, whose ulp is 2^9 or 2^10 times the operand's
FloatErr(n) ==
  IF n <= 0 THEN 0
  ELSE LET r == Rem125(n)
           sh == MilliBinade(n, 0) - UnitBinade(n)
       IN  IF r = 0 \/ sh # 9 THEN 0
           ELSE IF r <= 62 THEN (IF r >= 33 THEN 0 - 1 ELSE 0)
           ELSE (IF 125 - r >= 33 THEN 1 ELSE 0)

\* an int argument as a number
FromInt(k) == [n |-> k, e |-> 0]

\* reading * 1000, for a reading of n thousandths
Mul1000(n) == [n |-> n, e |-> FloatErr(n)]

\* int(x): truncation towards zero
int(x) == IF x.e < 0 /\ x.n > 0 THEN x.n - 1 ELSE x.n

\* "{:.2f}".format(float(x) / 1000.0) as thousandths (x >= 0): the binary
\* value is rounded to two decimals, a decimal tie being decided by the
\* side on which the binary value lies, and half-to-even when it is exact
Fmt2(x) ==
  IF x.n % 10 # 5 THEN ((x.n + 5) \div 10) * 10
  ELSE LET lo == x.n - 5
           hi == x.n + 5
           r == Rem125(x.n)
       IN  IF x.e < 0 THEN lo
           ELSE IF x.e > 0 THEN hi
           ELSE IF r = 0 THEN (IF (lo \div 10) % 2 = 0 THEN lo ELSE hi)
           ELSE IF r <= 62 THEN lo ELSE hi

\* "{:.3f}".format(float(x) / 1000.0) as thousandths (x >= 0)
Fmt3(x) == x.n

(* ------------------------------ commands ------------------------------ *)
\* a command line: stem, channel suffix (empty when absent), separator or
\* query mark, arguments, and the line terminators that follow it
Cmd(stem, ch, sep, arg) ==
  [stem |-> stem, ch |-> ch, sep |-> sep, arg |-> arg, eol |-> <<>>]

\* the serial_eol every session of the library is opened with
SerialEol == <<"LF">>

(* ------------------------- simulated power supply --------------------- *)
\* the device is [v, i: per-channel panel settings, memv, memi: content of
\* the memory slots, status: status byte, trail: the bytes it sends after
\* the status byte, idn: identity text, lfOnly: whether it answers *IDN?
\* only when a newline follows the command]
\* echo: stores what is set and reports it; reject: ignores set commands
\* and reports the old value; silent: stores but answers nothing
DevModes == {"echo", "reject", "silent"}

\* the channel a command addresses on the device
DevChan(cmd) == IF cmd.ch = <<>> THEN 1 ELSE cmd.ch[1]

\* the panel after the device received cmd
DevRecv(d, mode, cmd) ==
  IF cmd.sep = ":" /\ cmd.stem = "VSET" /\ mode # "reject"
    THEN [d EXCEPT !.v[DevChan(cmd)] = cmd.arg[1]]
  ELSE IF cmd.sep = ":" /\ cmd.stem = "ISET" /\ mode # "reject"
    THEN [d EXCEPT !.i[DevChan(cmd)] = cmd.arg[1]]
  ELSE IF cmd.stem = "RCL"
    THEN [d EXCEPT !.v[1] = d.memv, !.i[1] = d.memi]
  ELSE d

\* what the device puts in the host's input buffer in answer to cmd
DevAnswer(d, mode, cmd) ==
  IF cmd.sep # "?" \/ mode = "silent" THEN <<>>
  ELSE IF cmd.stem \in {"VSET", "VOUT"}
    THEN <<[kind |-> "num", n |-> d.v[DevChan(cmd)], txt |-> <<>>]>>
  ELSE IF cmd.stem \in {"ISET", "IOUT"}
    THEN <<[kind |-> "num", n |-> d.i[DevChan(cmd)], txt |-> <<>>]>>
  ELSE IF cmd.stem = "*IDN" /\ d.idn # <<>> /\ (d.lfOnly => Len(cmd.eol) > 1)
    THEN <<[kind |-> "text", n |-> 0, txt |-> d.idn]>>
  ELSE IF cmd.stem = "STATUS"
    THEN <<[kind |-> "byte", n |-> d.status, txt |-> <<>>]>>
           \o [k \in 1..Len(d.trail) |->
                 [kind |-> "byte", n |-> d.trail[k], txt |-> <<>>]]
  ELSE <<>>

(* ------------------------------ transport ----------------------------- *)
\* the state a method runs in: commands written, input buffer, device,
\* pending exception and return value
Raise(s, e) == [s EXCEPT !.err = e, !.ret = <<>>]

Ok(s) == s.err = "none"

Returning(s, r) == IF Ok(s) THEN [s EXCEPT !.ret = r] ELSE s

\* TenmaSerialHandler._sendCommand: one write of command + serial_eol; the
\* device has answered by the end of the settle delay
TenmaSerialHandler_sendCommand(s, cmd) ==
  IF ~Ok(s) THEN s
  ELSE LET line == [cmd EXCEPT !.eol = @ \o SerialEol]
       IN  [s EXCEPT !.wire = Append(@, line),
                     !.rx = @ \o DevAnswer(s.dev, s.mode, line),
                     !.dev = DevRecv(@, s.mode, line)]

\* TenmaSerialHandler._readBytes: drain the input buffer
TenmaSerialHandler_readBytes(s) ==
  IF ~Ok(s) THEN s ELSE [s EXCEPT !.rx = <<>>, !.ret = s.rx]

\* TenmaSerialHandler._readOutput: drain the input buffer, decoding each
\* byte as ASCII; a byte above 127 (written "0xFF" in a text) raises
\* UnicodeDecodeError and what follows it stays in the buffer
TenmaSerialHandler_readOutput(s) ==
  LET bad == {k \in 1..Len(s.rx) :
                \/ s.rx[k].kind = "byte" /\ s.rx[k].n > 127
                \/ \E j \in 1..Len(s.rx[k].txt) : s.rx[k].txt[j] = "0xFF"}
      first == CHOOSE k \in bad : \A j \in bad : k <= j
  IN  IF ~Ok(s) THEN s
      ELSE IF bad # {}
        THEN Raise([s EXCEPT !.rx = SubSeq(@, first + 1, Len(@))],
                   "UnicodeDecodeError")
      ELSE [s EXCEPT !.rx = <<>>, !.ret = s.rx]

\* float(text)
ParseFloat(s) ==
  IF ~Ok(s) THEN s
  ELSE IF Len(s.ret) = 1 /\ s.ret[1].kind = "num"
    THEN [s EXCEPT !.ret = <<s.ret[1].n>>]
  ELSE Raise(s, "ValueError")

\* float(text[:5]) of a current "A.AAA": a sixth character is cut off
ParseFloat5(s) ==
  IF ~Ok(s) THEN s
  ELSE IF Len(s.ret) >= 1 /\ s.ret[1].kind = "num"
    THEN [s EXCEPT !.ret = <<IF s.ret[1].n < 10000 THEN s.ret[1].n
                              ELSE (s.ret[1].n \div 10) * 10>>]
  ELSE Raise(s, "ValueError")

(* ----------------------- Tenma72Base: checks -------------------------- *)
\* checkChannel without the lower bound
checkChannel_upperOnly(m, s, channel) ==
  IF ~Ok(s) THEN s
  ELSE IF channel > NCHANNELS(m) THEN Raise(s, "ChannelRange")
  ELSE s

checkChannel(m, s, channel) ==
  IF ~Ok(s) THEN s
  ELSE IF channel > NCHANNELS(m) \/ channel < 1 THEN Raise(s, "ChannelRange")
  ELSE s

\* checkVoltage rejecting the maximum itself
checkVoltage_exclusive(m, s, mV) ==
  IF ~Ok(s) THEN s
  ELSE IF int(mV) >= MAX_MV(m) \/ int(mV) < 0 THEN Raise(s, "VoltageRange")
  ELSE s

checkVoltage(m, s, mV) ==
  IF ~Ok(s) THEN s
  ELSE IF int(mV) > MAX_MV(m) \/ int(mV) < 0 THEN Raise(s, "VoltageRange")
  ELSE s

\* checkCurrent without the lower bound
checkCurrent_upperOnly(m, s, mA) ==
  IF ~Ok(s) THEN s
  ELSE IF int(mA) > MAX_MA(m) THEN Raise(s, "CurrentRange")
  ELSE s

checkCurrent(m, s, mA) ==
  IF ~Ok(s) THEN s
  ELSE IF int(mA) > MAX_MA(m) \/ int(mA) < 0 THEN Raise(s, "CurrentRange")
  ELSE s

\* checkConf without the lower bound
checkConf_upperOnly(m, s, conf) ==
  IF ~Ok(s) THEN s
  ELSE IF conf > NCONFS(m) THEN Raise(s, "ConfRange")
  ELSE s

checkConf(m, s, conf) ==
  IF ~Ok(s) THEN s
  ELSE IF conf > NCONFS(m) \/ conf < 1 THEN Raise(s, "ConfRange")
  ELSE s

(* ----------------------- Tenma72Base: methods ------------------------- *)
Tenma72Base_getVersion(s, serialEol) ==
  LET s1 == TenmaSerialHandler_sendCommand(s,
              [Cmd("*IDN", <<>>, "?", <<>>) EXCEPT !.eol = serialEol])
      s2 == TenmaSerialHandler_readOutput(s1)
  IN  IF Ok(s2)
        THEN [s2 EXCEPT !.ret = IF s2.ret = <<>> THEN <<>> ELSE s2.ret[1].txt]
      ELSE s2

Tenma72Base_readVoltage(m, s, channel) ==
  LET s1 == checkChannel(m, s, channel)
      s2 == TenmaSerialHandler_sendCommand(s1, Cmd("VSET", <<channel>>, "?", <<>>))
  IN  ParseFloat(TenmaSerialHandler_readOutput(s2))

Tenma72Base_readCurrent(m, s, channel) ==
  LET s1 == checkChannel(m, s, channel)
      s2 == TenmaSerialHandler_sendCommand(s1, Cmd("ISET", <<channel>>, "?", <<>>))
  IN  ParseFloat5(TenmaSerialHandler_readOutput(s2))

Tenma72Base_runningCurrent(m, s, channel) ==
  LET s1 == checkChannel(m, s, channel)
      s2 == TenmaSerialHandler_sendCommand(s1, Cmd("IOUT", <<channel>>, "?", <<>>))
  IN  ParseFloat(TenmaSerialHandler_readOutput(s2))

Tenma72Base_runningVoltage(m, s, channel) ==
  LET s1 == checkChannel(m, s, channel)
      s2 == TenmaSerialHandler_sendCommand(s1, Cmd("VOUT", <<channel>>, "?", <<>>))
  IN  ParseFloat(TenmaSerialHandler_readOutput(s2))

\* Tenma72_13320.readCurrent: channel 3 cannot report its current
Tenma72_13320_readCurrent(m, s, channel) ==
  IF ~Ok(s) THEN s
  ELSE IF channel = 3 THEN Raise(s, "Ch3NoCurrent")
  ELSE Tenma72Base_readCurrent(m, s, channel)

Tenma72_13320_runningCurrent(m, s, channel) ==
  IF ~Ok(s) THEN s
  ELSE IF channel = 3 THEN Raise(s, "Ch3NoCurrent")
  ELSE Tenma72Base_runningCurrent(m, s, channel)

\* self.readCurrent(channel) as the session's class resolves it
self_readCurrent(m, s, channel) ==
  IF Family(m) = "multi" THEN Tenma72_13320_readCurrent(m, s, channel)
  ELSE Tenma72Base_readCurrent(m, s, channel)

\* the read-back comparison of setVoltage: int(readVolts * 1000) != int(mV)
VoltageMismatch(read, mV) == int(Mul1000(read)) # int(mV)

\* the read-back comparison of setCurrent: int(readcurrent * 1000) != mA,
\* where mA is compared as it was passed (an int, or a float in the save
\* flow)
CurrentMismatch(read, mA) == ~(mA.e = 0 /\ int(Mul1000(read)) = mA.n)

\* setVoltage sending the set command a second time on a mismatch
Tenma72Base_setVoltage_retry(m, s, channel, mV) ==
  LET s1 == checkVoltage(m, checkChannel(m, s, channel), mV)
      s2 == TenmaSerialHandler_sendCommand(s1, Cmd("VSET", <<channel>>, ":", <<Fmt2(mV)>>))
      s3 == Tenma72Base_readVoltage(m, s2, channel)
  IN  IF ~Ok(s3) THEN s3
      ELSE IF VoltageMismatch(s3.ret[1], mV)
        THEN Raise(TenmaSerialHandler_sendCommand(s3,
                     Cmd("VSET", <<channel>>, ":", <<Fmt2(mV)>>)), "Verification")
      ELSE s3

Tenma72Base_setVoltage(m, s, channel, mV) ==
  LET s1 == checkVoltage(m, checkChannel(m, s, channel), mV)
      s2 == TenmaSerialHandler_sendCommand(s1, Cmd("VSET", <<channel>>, ":", <<Fmt2(mV)>>))
      s3 == Tenma72Base_readVoltage(m, s2, channel)
  IN  IF ~Ok(s3) THEN s3
      ELSE IF VoltageMismatch(s3.ret[1], mV) THEN Raise(s3, "Verification")
      ELSE s3

Tenma72Base_setCurrent(m, s, channel, mA) ==
  LET s1 == checkCurrent(m, checkChannel(m, s, channel), mA)
      s2 == TenmaSerialHandler_sendCommand(s1, Cmd("ISET", <<channel>>, ":", <<Fmt3(mA)>>))
      s3 == self_readCurrent(m, s2, channel)
  IN  IF ~Ok(s3) THEN s3
      ELSE IF CurrentMismatch(s3.ret[1], mA) THEN Raise(s3, "Verification")
      ELSE s3

\* Tenma72_13320.setVoltage: channel 3 takes three presets only
\* setVoltage without the preset check of channel 3
Tenma72_13320_setVoltage_anyValue(m, s, channel, mV) ==
  Tenma72Base_setVoltage(m, s, channel, mV)

Tenma72_13320_setVoltage(m, s, channel, mV) ==
  IF ~Ok(s) THEN s
  ELSE IF channel = 3 /\ ~(mV.e = 0 /\ mV.n \in Ch3Presets) THEN Raise(s, "Ch3Preset")
  ELSE Tenma72Base_setVoltage(m, s, channel, mV)

self_setVoltage(m, s, channel, mV) ==
  IF Family(m) = "multi" THEN Tenma72_13320_setVoltage(m, s, channel, mV)
  ELSE Tenma72Base_setVoltage(m, s, channel, mV)

Tenma72Base_saveConf(m, s, conf) ==
  Returning(TenmaSerialHandler_sendCommand(checkConf(m, s, conf),
                                        Cmd("SAV", <<>>, "", <<conf>>)), <<>>)

Tenma72Base_recallConf(m, s, conf) ==
  Returning(TenmaSerialHandler_sendCommand(checkConf(m, s, conf),
                                        Cmd("RCL", <<>>, "", <<conf>>)), <<>>)

Tenma72Base_ON(s) ==
  Returning(TenmaSerialHandler_sendCommand(s, Cmd("OUT", <<>>, "", <<1>>)), <<>>)

Tenma72Base_OFF(s) ==
  Returning(TenmaSerialHandler_sendCommand(s, Cmd("OUT", <<>>, "", <<0>>)), <<>>)

\* Tenma72_13320.ON / OFF: channel is <<>> for None
Tenma72_13320_ON(m, s, channel) ==
  IF channel = <<>>
    THEN Returning(TenmaSerialHandler_sendCommand(s, Cmd("OUT", <<1, 2>>, ":", <<1>>)), <<>>)
  ELSE Returning(TenmaSerialHandler_sendCommand(checkChannel(m, s, channel[1]),
                Cmd("OUT", channel, ":", <<1>>)), <<>>)

Tenma72_13320_OFF(m, s, channel) ==
  IF channel = <<>>
    THEN Returning(TenmaSerialHandler_sendCommand(s, Cmd("OUT", <<1, 2>>, ":", <<0>>)), <<>>)
  ELSE Returning(TenmaSerialHandler_sendCommand(checkChannel(m, s, channel[1]),
                Cmd("OUT", channel, ":", <<0>>)), <<>>)

\* self.OFF() with no argument
self_OFF(m, s) ==
  IF Family(m) = "multi" THEN Tenma72_13320_OFF(m, s, <<>>)
  ELSE Tenma72Base_OFF(s)

\* saveConfFlow that saves whatever became of the earlier steps
Tenma72Base_saveConfFlow_unchecked(m, s, conf, channel) ==
  LET s1 == checkConf(m, s, conf)
      s2 == self_OFF(m, s1)
      s3 == Tenma72Base_readVoltage(m, s2, channel)
      s4 == self_readCurrent(m, s3, channel)
      s5 == Tenma72Base_recallConf(m, s4, conf)
      s6 == IF Ok(s5) THEN self_setVoltage(m, s5, channel, Mul1000(s3.ret[1])) ELSE s5
      s7 == IF Ok(s6) THEN Tenma72Base_setCurrent(m, s6, channel, Mul1000(s4.ret[1])) ELSE s6
      s8 == Tenma72Base_saveConf(m, [s7 EXCEPT !.err = "none"], conf)
  IN  IF Ok(s7) THEN Returning(s8, <<>>) ELSE [s8 EXCEPT !.err = s7.err, !.ret = <<>>]

Tenma72Base_saveConfFlow(m, s, conf, channel) ==
  LET s1 == checkConf(m, s, conf)
      s2 == self_OFF(m, s1)
      s3 == Tenma72Base_readVoltage(m, s2, channel)
      s4 == self_readCurrent(m, s3, channel)
      s5 == Tenma72Base_recallConf(m, s4, conf)
      s6 == IF Ok(s5) THEN self_setVoltage(m, s5, channel, Mul1000(s3.ret[1])) ELSE s5
      s7 == IF Ok(s6) THEN Tenma72Base_setCurrent(m, s6, channel, Mul1000(s4.ret[1])) ELSE s6
      s8 == Tenma72Base_saveConf(m, s7, conf)
  IN  Returning(s8, <<>>)

Tenma72Base_setOCP(s, enable) ==
  Returning(TenmaSerialHandler_sendCommand(s,
           Cmd("OCP", <<>>, "", <<IF enable THEN 1 ELSE 0>>)), <<>>)

Tenma72Base_setOVP(s, enable) ==
  Returning(TenmaSerialHandler_sendCommand(s,
           Cmd("OVP", <<>>, "", <<IF enable THEN 1 ELSE 0>>)), <<>>)

Tenma72Base_setBEEP(s, enable) ==
  Returning(TenmaSerialHandler_sendCommand(s,
           Cmd("BEEP", <<>>, "", <<IF enable THEN 1 ELSE 0>>)), <<>>)

\* setLock, setTracking and the step methods of Tenma72Base
Tenma72Base_notImplemented(s) == Raise(s, "NotImplemented")

\* bit k of a status byte
Bit(b, k) == (b \div Pow2(k)) % 2

\* the fields a status dictionary can hold; "-" where a layout has none
NoStatus ==
  [ch1Mode |-> "-", ch2Mode |-> "-", Tracking |-> "-", beep |-> "-",
   lock |-> "-", out |-> "-", out2 |-> "-", priority |-> "-"]

Flag(b, k) == IF Bit(b, k) = 1 THEN "True" ELSE "False"

Mode(b, k) == IF Bit(b, k) = 1 THEN "C.V" ELSE "C.C"

\* statusBytes[-1] of the drained input buffer
FirstByte_last(s) ==
  IF ~Ok(s) THEN s
  ELSE IF s.ret = <<>> THEN Raise(s, "IndexError")
  ELSE [s EXCEPT !.ret = <<s.ret[Len(s.ret)].n>>]

\* statusBytes[0] of the drained input buffer
FirstByte(s) ==
  IF ~Ok(s) THEN s
  ELSE IF s.ret = <<>> THEN Raise(s, "IndexError")
  ELSE [s EXCEPT !.ret = <<s.ret[1].n>>]

Tenma72Base_getStatus(s) ==
  LET s1 == FirstByte(TenmaSerialHandler_readBytes(
              TenmaSerialHandler_sendCommand(s, Cmd("STATUS", <<>>, "?", <<>>))))
      b == s1.ret[1]
      tracking == (b \div 4) % 4
  IN  IF ~Ok(s1) THEN s1
      ELSE [s1 EXCEPT !.ret = <<>>,
              !.status = [NoStatus EXCEPT
                 !.ch1Mode = Mode(b, 0), !.ch2Mode = Mode(b, 1),
                 !.Tracking = CASE tracking = 0 -> "Independent"
                                [] tracking = 1 -> "Tracking Series"
                                [] tracking = 3 -> "Tracking Parallel"
                                [] OTHER -> "Unknown",
                 !.beep = Flag(b, 4), !.lock = Flag(b, 5), !.out = Flag(b, 6)]]

(* ---------------------- Tenma72_13320: methods ------------------------ *)
Tenma72_13320_getStatus(s) ==
  LET s1 == FirstByte(TenmaSerialHandler_readBytes(
              TenmaSerialHandler_sendCommand(s, Cmd("STATUS", <<>>, "?", <<>>))))
      b == s1.ret[1]
      tracking == (b \div 4) % 4
  IN  IF ~Ok(s1) THEN s1
      ELSE [s1 EXCEPT !.ret = <<>>,
              !.status = [NoStatus EXCEPT
                 !.ch1Mode = Mode(b, 0), !.ch2Mode = Mode(b, 1),
                 !.Tracking = CASE tracking = 0 -> "Independent"
                                [] tracking = 1 -> "Tracking Series"
                                [] tracking = 2 -> "Tracking Parallel"
                                [] OTHER -> "Unknown",
                 !.out = Flag(b, 6), !.out2 = Flag(b, 7)]]

\* setOCP left to the inherited Tenma72Base.setOCP(enable=True)
Tenma72_13320_setOCP_inherited(s) == Tenma72Base_setOCP(s, TRUE)

Tenma72_13320_setOCP(s) == Raise(s, "NotImplemented")

Tenma72_13320_setOVP(s) == Raise(s, "NotImplemented")

Tenma72_13320_setLock(s, enable) ==
  Returning(TenmaSerialHandler_sendCommand(s,
           Cmd("LOCK", <<>>, "", <<IF enable THEN 1 ELSE 0>>)), <<>>)

Tenma72_13320_setTracking(s, trackingMode) ==
  IF trackingMode \notin {0, 1, 2} THEN Raise(s, "TrackingMode")
  ELSE Returning(TenmaSerialHandler_sendCommand(s,
                Cmd("TRACK", <<>>, "", <<trackingMode>>)), <<>>)

\* startAutoVoltageStep without the comparison of step and stop
Tenma72_13320_startAutoVoltageStep_unordered(m, s, channel, start, stop, step, stepTime) ==
  LET s1 == checkVoltage(m, checkChannel(m, s, channel), FromInt(stop))
  IN  IF ~Ok(s1) THEN s1
      ELSE Returning(TenmaSerialHandler_sendCommand(s1,
             Cmd("VASTEP", <<channel>>, ":", <<start, stop, step, stepTime>>)), <<>>)

\* the values are written as float(milli) / 1000.0 in Python's shortest
\* round-trip notation, which names exactly milli / 1000; the command
\* record carries them in milli-units
Tenma72_13320_startAutoVoltageStep(m, s, channel, start, stop, step, stepTime) ==
  LET s1 == checkVoltage(m, checkChannel(m, s, channel), FromInt(stop))
  IN  IF ~Ok(s1) THEN s1
      ELSE IF step > stop THEN Raise(s1, "StepOrder")
      ELSE Returning(TenmaSerialHandler_sendCommand(s1,
             Cmd("VASTEP", <<channel>>, ":", <<start, stop, step, stepTime>>)), <<>>)

Tenma72_13320_stopAutoVoltageStep(m, s, channel) ==
  Returning(TenmaSerialHandler_sendCommand(checkChannel(m, s, channel),
           Cmd("VASTOP", <<channel>>, "", <<>>)), <<>>)

Tenma72_13320_startAutoCurrentStep(m, s, channel, start, stop, step, stepTime) ==
  LET s1 == checkCurrent(m, checkChannel(m, s, channel), FromInt(stop))
  IN  IF ~Ok(s1) THEN s1
      ELSE IF step > stop THEN Raise(s1, "StepOrder")
      ELSE Returning(TenmaSerialHandler_sendCommand(s1,
             Cmd("IASTEP", <<channel>>, ":", <<start, stop, step, stepTime>>)), <<>>)

Tenma72_13320_stopAutoCurrentStep(m, s, channel) ==
  Returning(TenmaSerialHandler_sendCommand(checkChannel(m, s, channel),
           Cmd("IASTOP", <<channel>>, "", <<>>)), <<>>)

Tenma72_13320_setManualVoltageStep(m, s, channel, step) ==
  Returning(TenmaSerialHandler_sendCommand(
           checkVoltage(m, checkChannel(m, s, channel), FromInt(step)),
           Cmd("VSTEP", <<channel>>, ":", <<step>>)), <<>>)

Tenma72_13320_setManualCurrentStep(m, s, channel, step) ==
  Returning(TenmaSerialHandler_sendCommand(
           checkCurrent(m, checkChannel(m, s, channel), FromInt(step)),
           Cmd("ISTEP", <<channel>>, ":", <<step>>)), <<>>)

\* stepVoltageUp / stepVoltageDown / stepCurrentUp / stepCurrentDown
Tenma72_13320_step(m, s, stem, channel) ==
  Returning(TenmaSerialHandler_sendCommand(checkChannel(m, s, channel),
           Cmd(stem, <<channel>>, "", <<>>)), <<>>)

(* -------------------- Tenma72_13360_base: methods --------------------- *)
Tenma72_13360_checkVoltage(m, s, mV) ==
  IF ~Ok(s) THEN s
  ELSE IF int(mV) > MAX_MV(m) \/ int(mV) < 0 THEN Raise(s, "VoltageRange")
  ELSE s

Tenma72_13360_checkCurrent(m, s, mA) ==
  IF ~Ok(s) THEN s
  ELSE IF int(mA) > MAX_MA(m) \/ int(mA) < 0 THEN Raise(s, "CurrentRange")
  ELSE s

Tenma72_13360_getStatus(s) ==
  LET s1 == FirstByte(TenmaSerialHandler_readBytes(
              TenmaSerialHandler_sendCommand(s, Cmd("STATUS", <<>>, "?", <<>>))))
      b == s1.ret[1]
  IN  IF ~Ok(s1) THEN s1
      ELSE [s1 EXCEPT !.ret = <<>>,
              !.status = [NoStatus EXCEPT
                 !.ch1Mode = Mode(b, 0), !.out = Flag(b, 1),
                 !.priority = IF Bit(b, 2) = 1 THEN "Current priority"
                              ELSE "Voltage priority",
                 !.beep = Flag(b, 4), !.lock = Flag(b, 5)]]

Tenma72_13360_readCurrent(s) ==
  ParseFloat5(TenmaSerialHandler_readOutput(
    TenmaSerialHandler_sendCommand(s, Cmd("ISET", <<>>, "?", <<>>))))

Tenma72_13360_readVoltage(s) ==
  ParseFloat(TenmaSerialHandler_readOutput(
    TenmaSerialHandler_sendCommand(s, Cmd("VSET", <<>>, "?", <<>>))))

Tenma72_13360_runningCurrent(s) ==
  ParseFloat(TenmaSerialHandler_readOutput(
    TenmaSerialHandler_sendCommand(s, Cmd("IOUT", <<>>, "?", <<>>))))

Tenma72_13360_runningVoltage(s) ==
  ParseFloat(TenmaSerialHandler_readOutput(
    TenmaSerialHandler_sendCommand(s, Cmd("VOUT", <<>>, "?", <<>>))))

Tenma72_13360_setCurrent(m, s, mA) ==
  LET s1 == Tenma72_13360_checkCurrent(m, s, mA)
      s2 == TenmaSerialHandler_sendCommand(s1, Cmd("ISET", <<>>, ":", <<Fmt3(mA)>>))
      s3 == Tenma72_13360_readCurrent(s2)
  IN  IF ~Ok(s3) THEN s3
      ELSE IF CurrentMismatch(s3.ret[1], mA) THEN Raise(s3, "Verification")
      ELSE s3

Tenma72_13360_setVoltage(m, s, mV) ==
  LET s1 == Tenma72_13360_checkVoltage(m, s, mV)
      s2 == TenmaSerialHandler_sendCommand(s1, Cmd("VSET", <<>>, ":", <<Fmt2(mV)>>))
      s3 == Tenma72_13360_readVoltage(s2)
  IN  IF ~Ok(s3) THEN s3
      ELSE IF VoltageMismatch(s3.ret[1], mV) THEN Raise(s3, "Verification")
      ELSE s3

Tenma72_13360_saveConf(m, s, conf) ==
  IF ~Ok(s) THEN s
  ELSE IF conf > NCONFS(m) \/ conf < 1 THEN Raise(s, "ConfRange")
  ELSE Returning(TenmaSerialHandler_sendCommand(s, Cmd("SAV", <<>>, ":", <<conf>>)), <<>>)

\* saveConfFlow switching the output off before saving, as the base flow does
Tenma72_13360_saveConfFlow_outputOff(m, s, conf) ==
  Tenma72_13360_saveConf(m,
    TenmaSerialHandler_sendCommand(s, Cmd("OUT", <<>>, ":", <<0>>)), conf)

Tenma72_13360_saveConfFlow(m, s, conf) == Tenma72_13360_saveConf(m, s, conf)

Tenma72_13360_recallConf(m, s, conf) ==
  IF ~Ok(s) THEN s
  ELSE IF conf > NCONFS(m) \/ conf < 1 THEN Raise(s, "ConfRange")
  ELSE Returning(TenmaSerialHandler_sendCommand(s, Cmd("RCL", <<>>, ":", <<conf>>)), <<>>)

\* Tenma72_13360_base derives from object and defines no setOCP, setOVP or
\* setTracking: looking the method up raises AttributeError
Tenma72_13360_noAttribute(s) == Raise(s, "AttributeError")

\* setBEEP, setLock, ON, OFF, the stop and up/down step commands and the
\* priority commands: one unconditional write of stem[:arg]
Tenma72_13360_simple(s, stem, sep, arg) ==
  Returning(TenmaSerialHandler_sendCommand(s, Cmd(stem, <<>>, sep, arg)), <<>>)

Tenma72_13360_startAutoVoltageStep(m, s, start, stop, step, stepTime) ==
  LET s1 == Tenma72_13360_checkVoltage(m, s, FromInt(stop))
  IN  IF ~Ok(s1) THEN s1
      ELSE IF step > stop THEN Raise(s1, "StepOrder")
      ELSE Returning(TenmaSerialHandler_sendCommand(s1,
             Cmd("VASTEP", <<>>, ":", <<start, stop, step, stepTime>>)), <<>>)

Tenma72_13360_startAutoCurrentStep(m, s, start, stop, step, stepTime) ==
  LET s1 == Tenma72_13360_checkCurrent(m, s, FromInt(stop))
  IN  IF ~Ok(s1) THEN s1
      ELSE IF step > stop THEN Raise(s1, "StepOrder")
      ELSE Returning(TenmaSerialHandler_sendCommand(s1,
             Cmd("IASTEP", <<>>, ":", <<start, stop, step, stepTime>>)), <<>>)

Tenma72_13360_setManualVoltageStep(m, s, step) ==
  Returning(TenmaSerialHandler_sendCommand(
           Tenma72_13360_checkVoltage(m, s, FromInt(step)),
           Cmd("VSTEP", <<>>, ":", <<step>>)), <<>>)

Tenma72_13360_setManualCurrentStep(m, s, step) ==
  Returning(TenmaSerialHandler_sendCommand(
           Tenma72_13360_checkCurrent(m, s, FromInt(step)),
           Cmd("ISTEP", <<>>, ":", <<step>>)), <<>>)

(* --------------------------- model resolver --------------------------- *)
T72(digits) == <<"7", "2", "-">> \o digits

\* MATCH_STR of each variant, as character sequences
MATCH_STR(m) ==
  CASE m = "72-2540" -> <<T72(<<"2", "5", "4", "0">>)>>
    [] m = "72-2535" -> <<T72(<<"2", "5", "3", "5">>)>>
    [] m = "72-2545" -> <<T72(<<"2", "5", "4", "5">>)>>
    [] m = "72-2550" -> <<T72(<<"2", "5", "5", "0">>),
                          <<"K", "O", "R", "A", "D", "K", "A", "6", "0", "0", "3", "P">>>>
    [] m = "72-2930" -> <<T72(<<"2", "9", "3", "0">>)>>
    [] m = "72-2705" -> <<T72(<<"2", "7", "0", "5">>)>>
    [] m = "72-2940" -> <<T72(<<"2", "9", "4", "0">>)>>
    [] m = "72-13320" -> <<T72(<<"1", "3", "3", "2", "0">>)>>
    [] m = "72-13330" -> <<T72(<<"1", "3", "3", "3", "0">>)>>
    [] m = "72-13360" -> <<T72(<<"1", "3", "3", "6", "0">>)>>

\* findSubclassesRecursively(Tenma72Base): the classes derived from
\* Tenma72Base in definition order, each followed by its own subclasses;
\* Tenma72_13360 derives from Tenma72_13360_base(object) and is not among
\* them
findSubclassesRecursively ==
  <<"72-2540", "72-2535", "72-2545", "72-2550", "72-2930", "72-2705",
    "72-2940", "72-13320", "72-13330">>

\* matchString in ver
Contains(ver, matchString) ==
  \E k \in 0..(Len(ver) - Len(matchString)) :
     SubSeq(ver, k + 1, k + Len(matchString)) = matchString

\* the loops of lines 57-60: the first class, in scan order, one of whose
\* match strings occurs in ver; <<>> when the loops fall through
RECURSIVE ScanClasses_lastMatch(_, _, _)
ScanClasses_lastMatch(classes, k, ver) ==
  IF k > Len(classes) THEN <<>>
  ELSE LET later == ScanClasses_lastMatch(classes, k + 1, ver)
       IN  IF later # <<>> THEN later
           ELSE IF \E j \in 1..Len(MATCH_STR(classes[k])) :
                     Contains(ver, MATCH_STR(classes[k])[j])
             THEN <<classes[k]>>
           ELSE <<>>

RECURSIVE ScanClasses(_, _, _)
ScanClasses(classes, k, ver) ==
  IF k > Len(classes) THEN <<>>
  ELSE IF \E j \in 1..Len(MATCH_STR(classes[k])) :
            Contains(ver, MATCH_STR(classes[k])[j])
    THEN <<classes[k]>>
  ELSE ScanClasses(classes, k + 1, ver)

\* the resolver falling back to the base class' own default, 72-2540
instantiate_defaulting_to_2540(s) ==
  LET s1 == Tenma72Base_getVersion(s, <<>>)
      s2 == IF s1.ret = <<>> THEN Tenma72Base_getVersion(s1, <<"LF">>) ELSE s1
      found == ScanClasses(findSubclassesRecursively, 1, s2.ret)
  IN  [probe |-> s2,
       cls |-> IF found = <<>> THEN "72-2540" ELSE found[1],
       diag |-> found = <<>>]

\* instantiate_tenma_class_from_device_response, run from state s of the
\* probe session: the probe's end state, the class whose session is
\* returned and whether the diagnostic was printed
instantiate_tenma_class_from_device_response(s) ==
  LET s1 == Tenma72Base_getVersion(s, <<>>)
      s2 == IF s1.ret = <<>> THEN Tenma72Base_getVersion(s1, <<"LF">>) ELSE s1
      found == ScanClasses(findSubclassesRecursively, 1, s2.ret)
  IN  [probe |-> s2,
       cls |-> IF found = <<>> THEN "72-2545" ELSE found[1],
       diag |-> found = <<>>]

(* ----------------------------- state ---------------------------------- *)
VARIABLES
  session,   \* "closed" or "open": whether the caller holds a session
  model,     \* the variant the session was constructed as
  call,      \* the last call: operation, arguments, device behaviour
  wire,      \* the command lines written to the transport during it
  outcome,   \* how it ended: exception, return value, status dictionary
  dev,       \* the power supply after it
  diag,      \* whether the resolver printed its diagnostic
  run,       \* the resolver or command-line run under way, step by step
  port       \* the serial handler of the session, statement by statement

vars == <<session, model, call, wire, outcome, dev, diag, run, port>>

(* ----------------------------- inputs --------------------------------- *)
ChannelArgs == 0..MaxChannelArg

ConfArgs == 0..MaxConfArg

VoltArgs(m) ==
  {0 - 1, 0, MAX_MV(m), MAX_MV(m) + 1} \cup Ch3Presets
    \cup {2008 + k : k \in 0..NSamples}

CurrArgs(m) ==
  {0 - 1, 0, MAX_MA(m) - 1, MAX_MA(m), MAX_MA(m) + 1}
    \cup {1000 + k : k \in 0..NSamples}

\* what the front panel may show when a call starts
PanelV == {0, 2010}

PanelI == {1000, 1001}

StepVolts(m) == {0, 1000, MAX_MV(m) + 1}

StepAmps(m) == {0, 1000, MAX_MA(m) + 1}

StatusBytes == 0..255

\* what may follow the status byte: nothing, or the newline the 72-13330
\* sends as a second byte
StatusTrails == {<<>>, <<10>>}

\* identity texts: one per documented model, a second brand name, a text
\* naming two models, an unknown text and no text at all
Identities ==
  {<<"T">> \o MATCH_STR(m)[1] \o <<"V">> : m \in Models}
    \cup {MATCH_STR("72-2550")[2] \o <<"V">>,
          MATCH_STR("72-2550")[1] \o MATCH_STR("72-2540")[1],
          <<"X", "Y", "Z">>, <<>>}

\* a power supply whose channel ch shows pv / pi
Panel(ch, pv, pi) ==
  [v |-> [c \in 1..3 |-> IF c = ch THEN pv ELSE 0],
   i |-> [c \in 1..3 |-> IF c = ch THEN pi ELSE 0],
   memv |-> 0, memi |-> 0, status |-> 0, trail |-> <<>>, idn |-> <<>>,
   lfOnly |-> FALSE]

\* the channel of the device a call with channel argument ch looks at
Target(ch) == IF ch \in 1..3 THEN ch ELSE 1

NoOutcome == [err |-> "none", ret |-> <<>>, status |-> NoStatus]

\* the state a method starts in
Begin(d, mode) ==
  [wire |-> <<>>, rx |-> <<>>, dev |-> d, mode |-> mode,
   err |-> "none", ret |-> <<>>, status |-> NoStatus]

\* a call of op(args) on the open session that ran from Begin to s
Finish(op, args, pv, pi, s) ==
  /\ call' = [op |-> op, args |-> args, mode |-> s.mode, pv |-> pv, pi |-> pi]
  /\ wire' = s.wire
  /\ outcome' = [err |-> s.err, ret |-> s.ret, status |-> s.status]
  /\ dev' = s.dev
  /\ UNCHANGED <<session, model, diag, run, port>>

\* no resolver or command-line run under way: pc is the position in the
\* run, events the opens, writes and closes on the serial port so far,
\* answers what each identity query returned, opts the options of the
\* command line, printed whether "Lib ERROR" was printed, closes how often
\* T.close() ran, raised the exception leaving main
IdleRun ==
  [pc |-> "idle", events |-> <<>>, answers |-> <<>>,
   opts |-> [save |-> 0, channel |-> 1, script |-> FALSE],
   printed |-> FALSE, closes |-> 0, raised |-> "none"]

\* a serial handler after __init__: pc is the statement it is at (idle:
\* in no method; written: between ser.write and the end of time.sleep;
\* reading: in the loop of _readBytes / _readOutput), buf the bytes
\* waiting in the input buffer, air the bytes the device has sent that
\* have not arrived yet, log the writes, settle delays and reads so far,
\* answers what the device answered to each write, out the bytes the
\* running read has taken, ret what the last read returned
\* (fn: the method, after: how many commands had been written, had: the
\* buffer at its start, got: the result, left: the buffer at its end,
\* arrived: whether a byte arrived during it, err: its exception)
IdlePort ==
  [pc |-> "idle", buf |-> <<>>, air |-> <<>>, log |-> <<>>, answers |-> <<>>,
   reads |-> 0, out |-> <<>>,
   ret |-> [fn |-> "none", after |-> 0, had |-> <<>>, got |-> <<>>,
            left |-> <<>>, arrived |-> FALSE, err |-> "none"]]

Init ==
  /\ session = "closed"
  /\ model = "none"
  /\ call = [op |-> "none", args |-> <<>>, mode |-> "echo", pv |-> 0, pi |-> 0]
  /\ wire = <<>>
  /\ outcome = NoOutcome
  /\ dev = Panel(1, 0, 0)
  /\ diag = FALSE
  /\ run = IdleRun
  /\ port = IdlePort

(* ------------------------ opening and closing ------------------------- *)
\* tenmaDcLib.instantiate_tenma_class_from_device_response(device)
Instantiate ==
  /\ session = "closed"
  /\ UNCHANGED <<run, port>>
  /\ \E idn \in Identities, lfOnly \in BOOLEAN :
       LET d == [Panel(1, 0, 0) EXCEPT !.idn = idn, !.lfOnly = lfOnly]
           r == instantiate_tenma_class_from_device_response(Begin(d, "echo"))
       IN  /\ session' = "open"
           /\ model' = r.cls
           /\ diag' = r.diag
           /\ call' = [op |-> "instantiate", args |-> <<>>, mode |-> "echo",
                       pv |-> 0, pi |-> 0]
           /\ wire' = r.probe.wire
           /\ outcome' = [NoOutcome EXCEPT !.err = r.probe.err]
           /\ dev' = r.probe.dev

\* direct construction of a variant class, e.g. Tenma72_13360(device)
Construct ==
  /\ session = "closed"
  /\ UNCHANGED <<run, port>>
  /\ \E m \in Models :
       /\ session' = "open"
       /\ model' = m
       /\ diag' = FALSE
       /\ call' = [op |-> "construct", args |-> <<>>, mode |-> "echo",
                   pv |-> 0, pi |-> 0]
       /\ wire' = <<>>
       /\ outcome' = NoOutcome
       /\ dev' = Panel(1, 0, 0)

\* a session is ready for a call when it is open and no call is under way
Ready == session = "open" /\ call.op = "idle"

\* the call returns or raises to the caller; by the next call the operator
\* may have changed the panel, which each call takes as an input
Return ==
  /\ session = "open"
  /\ call.op # "idle"
  /\ call' = [op |-> "idle", args |-> <<>>, mode |-> "echo", pv |-> 0, pi |-> 0]
  /\ wire' = <<>>
  /\ outcome' = NoOutcome
  /\ dev' = Panel(1, 0, 0)
  /\ UNCHANGED <<session, model, diag, run, port>>

\* close()
Close ==
  /\ Ready
  /\ session' = "closed"
  /\ call' = [op |-> "close", args |-> <<>>, mode |-> "echo", pv |-> 0, pi |-> 0]
  /\ wire' = <<>>
  /\ outcome' = NoOutcome
  /\ UNCHANGED <<model, dev, diag, run, port>>

(* ---------------------------- operations ------------------------------ *)
setVoltage ==
  /\ Ready
  /\ \E mV \in VoltArgs(model), mode \in DevModes, pv \in PanelV, pi \in PanelI :
       IF Family(model) = "rs485"
         THEN Finish("setVoltage", <<mV>>, pv, pi,
                Tenma72_13360_setVoltage(model, Begin(Panel(1, pv, pi), mode), FromInt(mV)))
       ELSE \E ch \in ChannelArgs :
              Finish("setVoltage", <<ch, mV>>, pv, pi,
                self_setVoltage(model, Begin(Panel(Target(ch), pv, pi), mode), ch, FromInt(mV)))

setCurrent ==
  /\ Ready
  /\ \E mA \in CurrArgs(model), mode \in DevModes, pv \in PanelV, pi \in PanelI :
       IF Family(model) = "rs485"
         THEN Finish("setCurrent", <<mA>>, pv, pi,
                Tenma72_13360_setCurrent(model, Begin(Panel(1, pv, pi), mode), FromInt(mA)))
       ELSE \E ch \in ChannelArgs :
              Finish("setCurrent", <<ch, mA>>, pv, pi,
                Tenma72Base_setCurrent(model, Begin(Panel(Target(ch), pv, pi), mode), ch, FromInt(mA)))

readVoltage ==
  /\ Ready
  /\ \E mode \in DevModes, pv \in PanelV, pi \in PanelI :
       IF Family(model) = "rs485"
         THEN Finish("readVoltage", <<>>, pv, pi,
                Tenma72_13360_readVoltage(Begin(Panel(1, pv, pi), mode)))
       ELSE \E ch \in ChannelArgs :
              Finish("readVoltage", <<ch>>, pv, pi,
                Tenma72Base_readVoltage(model, Begin(Panel(Target(ch), pv, pi), mode), ch))

readCurrent ==
  /\ Ready
  /\ \E mode \in DevModes, pv \in PanelV, pi \in PanelI :
       IF Family(model) = "rs485"
         THEN Finish("readCurrent", <<>>, pv, pi,
                Tenma72_13360_readCurrent(Begin(Panel(1, pv, pi), mode)))
       ELSE \E ch \in ChannelArgs :
              Finish("readCurrent", <<ch>>, pv, pi,
                self_readCurrent(model, Begin(Panel(Target(ch), pv, pi), mode), ch))

runningVoltage ==
  /\ Ready
  /\ \E mode \in DevModes, pv \in PanelV, pi \in PanelI :
       IF Family(model) = "rs485"
         THEN Finish("runningVoltage", <<>>, pv, pi,
                Tenma72_13360_runningVoltage(Begin(Panel(1, pv, pi), mode)))
       ELSE \E ch \in ChannelArgs :
              Finish("runningVoltage", <<ch>>, pv, pi,
                Tenma72Base_runningVoltage(model, Begin(Panel(Target(ch), pv, pi), mode), ch))

runningCurrent ==
  /\ Ready
  /\ \E mode \in DevModes, pv \in PanelV, pi \in PanelI :
       CASE Family(model) = "rs485" ->
              Finish("runningCurrent", <<>>, pv, pi,
                Tenma72_13360_runningCurrent(Begin(Panel(1, pv, pi), mode)))
         [] Family(model) = "multi" ->
              \E ch \in ChannelArgs :
                Finish("runningCurrent", <<ch>>, pv, pi,
                  Tenma72_13320_runningCurrent(model, Begin(Panel(Target(ch), pv, pi), mode), ch))
         [] OTHER ->
              \E ch \in ChannelArgs :
                Finish("runningCurrent", <<ch>>, pv, pi,
                  Tenma72Base_runningCurrent(model, Begin(Panel(Target(ch), pv, pi), mode), ch))

saveConf ==
  /\ Ready
  /\ \E conf \in ConfArgs :
       Finish("saveConf", <<conf>>, 0, 0,
         IF Family(model) = "rs485"
           THEN Tenma72_13360_saveConf(model, Begin(Panel(1, 0, 0), "echo"), conf)
         ELSE Tenma72Base_saveConf(model, Begin(Panel(1, 0, 0), "echo"), conf))

recallConf ==
  /\ Ready
  /\ \E conf \in ConfArgs :
       Finish("recallConf", <<conf>>, 0, 0,
         IF Family(model) = "rs485"
           THEN Tenma72_13360_recallConf(model, Begin(Panel(1, 0, 0), "echo"), conf)
         ELSE Tenma72Base_recallConf(model, Begin(Panel(1, 0, 0), "echo"), conf))

saveConfFlow ==
  /\ Ready
  /\ \E conf \in ConfArgs :
       IF Family(model) = "rs485"
         THEN Finish("saveConfFlow", <<conf>>, 0, 0,
                Tenma72_13360_saveConfFlow(model, Begin(Panel(1, 0, 0), "echo"), conf))
       ELSE \E ch \in ChannelArgs, mode \in DevModes, pv \in PanelV, pi \in PanelI :
              Finish("saveConfFlow", <<conf, ch>>, pv, pi,
                Tenma72Base_saveConfFlow(model, Begin(Panel(Target(ch), pv, pi), mode), conf, ch))

\* setOCP and setOVP are not defined by Tenma72_13360_base
setOCP ==
  /\ Ready
  /\ \E enable \in BOOLEAN :
       LET s0 == Begin(Panel(1, 0, 0), "echo")
       IN  Finish("setOCP", <<IF enable THEN 1 ELSE 0>>, 0, 0,
             CASE Family(model) = "multi" -> Tenma72_13320_setOCP(s0)
               [] Family(model) = "rs485" -> Tenma72_13360_noAttribute(s0)
               [] OTHER -> Tenma72Base_setOCP(s0, enable))

setOVP ==
  /\ Ready
  /\ \E enable \in BOOLEAN :
       LET s0 == Begin(Panel(1, 0, 0), "echo")
       IN  Finish("setOVP", <<IF enable THEN 1 ELSE 0>>, 0, 0,
             CASE Family(model) = "multi" -> Tenma72_13320_setOVP(s0)
               [] Family(model) = "rs485" -> Tenma72_13360_noAttribute(s0)
               [] OTHER -> Tenma72Base_setOVP(s0, enable))

setBEEP ==
  /\ Ready
  /\ \E enable \in BOOLEAN :
       LET s0 == Begin(Panel(1, 0, 0), "echo")
       IN  Finish("setBEEP", <<IF enable THEN 1 ELSE 0>>, 0, 0,
             CASE Family(model) = "multi" -> Tenma72Base_setBEEP(s0, enable)
           [] Family(model) = "rs485" -> Tenma72_13360_simple(s0, "BEEP", ":", <<IF enable THEN 1 ELSE 0>>)
               [] OTHER -> Tenma72Base_setBEEP(s0, enable))

setLock ==
  /\ Ready
  /\ \E enable \in BOOLEAN :
       LET s0 == Begin(Panel(1, 0, 0), "echo")
       IN  Finish("setLock", <<IF enable THEN 1 ELSE 0>>, 0, 0,
             CASE Family(model) = "multi" -> Tenma72_13320_setLock(s0, enable)
           [] Family(model) = "rs485" -> Tenma72_13360_simple(s0, "LOCK", ":", <<IF enable THEN 1 ELSE 0>>)
               [] OTHER -> Tenma72Base_notImplemented(s0))

\* ON(): the three-channel class also takes an optional channel
ON ==
  /\ Ready
  /\ LET s0 == Begin(Panel(1, 0, 0), "echo")
     IN  CASE Family(model) = "multi" ->
                \E channel \in {<<>>} \cup {<<ch>> : ch \in ChannelArgs} :
                  Finish("ON", channel, 0, 0, Tenma72_13320_ON(model, s0, channel))
           [] Family(model) = "rs485" ->
                Finish("ON", <<>>, 0, 0, Tenma72_13360_simple(s0, "OUT", ":", <<1>>))
           [] OTHER -> Finish("ON", <<>>, 0, 0, Tenma72Base_ON(s0))

OFF ==
  /\ Ready
  /\ LET s0 == Begin(Panel(1, 0, 0), "echo")
     IN  CASE Family(model) = "multi" ->
                \E channel \in {<<>>} \cup {<<ch>> : ch \in ChannelArgs} :
                  Finish("OFF", channel, 0, 0, Tenma72_13320_OFF(model, s0, channel))
           [] Family(model) = "rs485" ->
                Finish("OFF", <<>>, 0, 0, Tenma72_13360_simple(s0, "OUT", ":", <<0>>))
           [] OTHER -> Finish("OFF", <<>>, 0, 0, Tenma72Base_OFF(s0))

\* setTracking is not defined by Tenma72_13360_base
setTracking ==
  /\ Ready
  /\ \E trackingMode \in 0 - 1..3 :
       LET s0 == Begin(Panel(1, 0, 0), "echo")
       IN  Finish("setTracking", <<trackingMode>>, 0, 0,
             CASE Family(model) = "multi" -> Tenma72_13320_setTracking(s0, trackingMode)
               [] Family(model) = "rs485" -> Tenma72_13360_noAttribute(s0)
               [] OTHER -> Tenma72Base_notImplemented(s0))

getStatus ==
  /\ Ready
  /\ \E b \in StatusBytes, trail \in StatusTrails, mode \in {"echo", "silent"} :
       LET s0 == Begin([Panel(1, 0, 0) EXCEPT !.status = b, !.trail = trail], mode)
       IN  Finish("getStatus", <<>>, 0, 0,
             CASE Family(model) = "multi" -> Tenma72_13320_getStatus(s0)
               [] Family(model) = "rs485" -> Tenma72_13360_getStatus(s0)
               [] OTHER -> Tenma72Base_getStatus(s0))

\* getVersion() on the open session; both base classes define it alike
getVersion ==
  /\ Ready
  /\ \E idn \in Identities :
       LET s == Tenma72Base_getVersion(Begin([Panel(1, 0, 0) EXCEPT !.idn = idn], "echo"), <<>>)
       IN  Finish("getVersion", <<>>, 0, 0, [s EXCEPT !.ret = <<>>])

startAutoVoltageStep ==
  /\ Ready
  /\ \E start \in StepVolts(model), stop \in StepVolts(model), step \in StepVolts(model) :
       LET s0 == Begin(Panel(1, 0, 0), "echo")
       IN  CASE Family(model) = "multi" ->
                  \E ch \in ChannelArgs :
                    Finish("startAutoVoltageStep", <<ch, start, stop, step, 1>>, 0, 0,
                      Tenma72_13320_startAutoVoltageStep(model, s0, ch, start, stop, step, 1))
             [] Family(model) = "rs485" ->
                  Finish("startAutoVoltageStep", <<start, stop, step, 1>>, 0, 0,
                    Tenma72_13360_startAutoVoltageStep(model, s0, start, stop, step, 1))
             [] OTHER ->
                  \E ch \in ChannelArgs :
                    Finish("startAutoVoltageStep", <<ch, start, stop, step, 1>>, 0, 0,
                      Tenma72Base_notImplemented(s0))

startAutoCurrentStep ==
  /\ Ready
  /\ \E start \in StepAmps(model), stop \in StepAmps(model), step \in StepAmps(model) :
       LET s0 == Begin(Panel(1, 0, 0), "echo")
       IN  CASE Family(model) = "multi" ->
                  \E ch \in ChannelArgs :
                    Finish("startAutoCurrentStep", <<ch, start, stop, step, 1>>, 0, 0,
                      Tenma72_13320_startAutoCurrentStep(model, s0, ch, start, stop, step, 1))
             [] Family(model) = "rs485" ->
                  Finish("startAutoCurrentStep", <<start, stop, step, 1>>, 0, 0,
                    Tenma72_13360_startAutoCurrentStep(model, s0, start, stop, step, 1))
             [] OTHER ->
                  \E ch \in ChannelArgs :
                    Finish("startAutoCurrentStep", <<ch, start, stop, step, 1>>, 0, 0,
                      Tenma72Base_notImplemented(s0))

setManualVoltageStep ==
  /\ Ready
  /\ \E step \in StepVolts(model) :
       LET s0 == Begin(Panel(1, 0, 0), "echo")
       IN  CASE Family(model) = "multi" ->
                  \E ch \in ChannelArgs :
                    Finish("setManualVoltageStep", <<ch, step>>, 0, 0,
                      Tenma72_13320_setManualVoltageStep(model, s0, ch, step))
             [] Family(model) = "rs485" ->
                  Finish("setManualVoltageStep", <<step>>, 0, 0,
                    Tenma72_13360_setManualVoltageStep(model, s0, step))
             [] OTHER ->
                  \E ch \in ChannelArgs :
                    Finish("setManualVoltageStep", <<ch, step>>, 0, 0,
                      Tenma72Base_notImplemented(s0))

setManualCurrentStep ==
  /\ Ready
  /\ \E step \in StepAmps(model) :
       LET s0 == Begin(Panel(1, 0, 0), "echo")
       IN  CASE Family(model) = "multi" ->
                  \E ch \in ChannelArgs :
                    Finish("setManualCurrentStep", <<ch, step>>, 0, 0,
                      Tenma72_13320_setManualCurrentStep(model, s0, ch, step))
             [] Family(model) = "rs485" ->
                  Finish("setManualCurrentStep", <<step>>, 0, 0,
                    Tenma72_13360_setManualCurrentStep(model, s0, step))
             [] OTHER ->
                  \E ch \in ChannelArgs :
                    Finish("setManualCurrentStep", <<ch, step>>, 0, 0,
                      Tenma72Base_notImplemented(s0))

stopAutoVoltageStep ==
  /\ Ready
  /\ LET s0 == Begin(Panel(1, 0, 0), "echo")
     IN  CASE Family(model) = "multi" ->
                \E ch \in ChannelArgs : Finish("stopAutoVoltageStep", <<ch>>, 0, 0, Tenma72_13320_stopAutoVoltageStep(model, s0, ch))
           [] Family(model) = "rs485" -> Finish("stopAutoVoltageStep", <<>>, 0, 0, Tenma72_13360_simple(s0, "VASTOP", "", <<>>))
           [] OTHER ->
                \E ch \in ChannelArgs :
                  Finish("stopAutoVoltageStep", <<ch>>, 0, 0, Tenma72Base_notImplemented(s0))

stopAutoCurrentStep ==
  /\ Ready
  /\ LET s0 == Begin(Panel(1, 0, 0), "echo")
     IN  CASE Family(model) = "multi" ->
                \E ch \in ChannelArgs : Finish("stopAutoCurrentStep", <<ch>>, 0, 0, Tenma72_13320_stopAutoCurrentStep(model, s0, ch))
           [] Family(model) = "rs485" -> Finish("stopAutoCurrentStep", <<>>, 0, 0, Tenma72_13360_simple(s0, "IASTOP", "", <<>>))
           [] OTHER ->
                \E ch \in ChannelArgs :
                  Finish("stopAutoCurrentStep", <<ch>>, 0, 0, Tenma72Base_notImplemented(s0))

stepVoltageUp ==
  /\ Ready
  /\ LET s0 == Begin(Panel(1, 0, 0), "echo")
     IN  CASE Family(model) = "multi" ->
                \E ch \in ChannelArgs : Finish("stepVoltageUp", <<ch>>, 0, 0, Tenma72_13320_step(model, s0, "VUP", ch))
           [] Family(model) = "rs485" -> Finish("stepVoltageUp", <<>>, 0, 0, Tenma72_13360_simple(s0, "VUP", "", <<>>))
           [] OTHER ->
                \E ch \in ChannelArgs :
                  Finish("stepVoltageUp", <<ch>>, 0, 0, Tenma72Base_notImplemented(s0))

stepVoltageDown ==
  /\ Ready
  /\ LET s0 == Begin(Panel(1, 0, 0), "echo")
     IN  CASE Family(model) = "multi" ->
                \E ch \in ChannelArgs : Finish("stepVoltageDown", <<ch>>, 0, 0, Tenma72_13320_step(model, s0, "VDOWN", ch))
           [] Family(model) = "rs485" -> Finish("stepVoltageDown", <<>>, 0, 0, Tenma72_13360_simple(s0, "VDOWN", "", <<>>))
           [] OTHER ->
                \E ch \in ChannelArgs :
                  Finish("stepVoltageDown", <<ch>>, 0, 0, Tenma72Base_notImplemented(s0))

stepCurrentUp ==
  /\ Ready
  /\ LET s0 == Begin(Panel(1, 0, 0), "echo")
     IN  CASE Family(model) = "multi" ->
                \E ch \in ChannelArgs : Finish("stepCurrentUp", <<ch>>, 0, 0, Tenma72_13320_step(model, s0, "IUP", ch))
           [] Family(model) = "rs485" -> Finish("stepCurrentUp", <<>>, 0, 0, Tenma72_13360_simple(s0, "IUP", "", <<>>))
           [] OTHER ->
                \E ch \in ChannelArgs :
                  Finish("stepCurrentUp", <<ch>>, 0, 0, Tenma72Base_notImplemented(s0))

stepCurrentDown ==
  /\ Ready
  /\ LET s0 == Begin(Panel(1, 0, 0), "echo")
     IN  CASE Family(model) = "multi" ->
                \E ch \in ChannelArgs : Finish("stepCurrentDown", <<ch>>, 0, 0, Tenma72_13320_step(model, s0, "IDOWN", ch))
           [] Family(model) = "rs485" -> Finish("stepCurrentDown", <<>>, 0, 0, Tenma72_13360_simple(s0, "IDOWN", "", <<>>))
           [] OTHER ->
                \E ch \in ChannelArgs :
                  Finish("stepCurrentDown", <<ch>>, 0, 0, Tenma72Base_notImplemented(s0))

\* setVoltagePriority() / setCurrentPriority() of Tenma72_13360_base
setPriority ==
  /\ Ready
  /\ Family(model) = "rs485"
  /\ \E p \in {0, 1} :
       Finish("setPriority", <<p>>, 0, 0,
         Tenma72_13360_simple(Begin(Panel(1, 0, 0), "echo"), "PRIORITY", ":", <<p>>))

Next ==
  \/ Instantiate \/ Construct \/ Return \/ Close
  \/ setVoltage \/ setCurrent \/ readVoltage \/ readCurrent
  \/ runningVoltage \/ runningCurrent
  \/ saveConf \/ recallConf \/ saveConfFlow
  \/ setOCP \/ setOVP \/ setBEEP \/ setLock \/ ON \/ OFF \/ setTracking
  \/ getStatus \/ getVersion
  \/ startAutoVoltageStep \/ stopAutoVoltageStep
  \/ startAutoCurrentStep \/ stopAutoCurrentStep
  \/ setManualVoltageStep \/ setManualCurrentStep
  \/ stepVoltageUp \/ stepVoltageDown \/ stepCurrentUp \/ stepCurrentDown
  \/ setPriority

Spec == Init /\ [][Next]_vars

(* ------------------- the resolver, statement by statement ------------- *)
\* an open, write or close on the serial port by the probe session or by
\* the session of the selected variant
Event(what, on) == [what |-> what, on |-> on]

\* the method state of a call on the port as the run left it
Resume(mode) == [Begin(dev, mode) EXCEPT !.wire = wire]

\* "if not ver" sending the second query whatever the first returned
NeedsRetry_always(ver) == TRUE

\* tenmaDcLib.py line 51: if not ver
NeedsRetry(ver) == ver = <<>>

\* the identities a probed device may answer with: those above and one
\* that starts with a byte above 127
ProbeIdentities == Identities \cup {<<"0xFF">> \o MATCH_STR("72-2540")[1]}

\* line 49: powerSupply = Tenma72Base(device, debug=debug)
Resolver_open ==
  /\ session = "closed" /\ run.pc = "idle"
  /\ \E idn \in ProbeIdentities, lfOnly \in BOOLEAN :
       dev' = [Panel(1, 0, 0) EXCEPT !.idn = idn, !.lfOnly = lfOnly]
  /\ run' = [IdleRun EXCEPT !.pc = "getVersion",
                            !.events = <<Event("open", "probe")>>]
  /\ call' = [op |-> "resolve", args |-> <<>>, mode |-> "echo", pv |-> 0, pi |-> 0]
  /\ wire' = <<>>
  /\ outcome' = NoOutcome
  /\ model' = "none"
  /\ diag' = FALSE
  /\ UNCHANGED <<session, port>>

\* line 50: ver = powerSupply.getVersion(); an exception raised in it
\* leaves the resolver at once
Resolver_getVersion ==
  /\ run.pc = "getVersion"
  /\ LET s == Tenma72Base_getVersion(Resume("echo"), <<>>)
     IN  /\ wire' = s.wire
         /\ dev' = s.dev
         /\ run' = IF Ok(s)
                     THEN [run EXCEPT
                             !.pc = IF NeedsRetry(s.ret) THEN "retry" ELSE "close",
                             !.answers = Append(@, s.ret),
                             !.events = Append(@, Event("write", "probe"))]
                   ELSE [run EXCEPT
                           !.pc = "raised", !.raised = s.err,
                           !.events = Append(@, Event("write", "probe"))]
  /\ UNCHANGED <<session, model, call, outcome, diag, port>>

\* lines 51-54: ver = powerSupply.getVersion(serialEol="\n")
Resolver_retry ==
  /\ run.pc = "retry"
  /\ LET s == Tenma72Base_getVersion(Resume("echo"), <<"LF">>)
     IN  /\ wire' = s.wire
         /\ dev' = s.dev
         /\ run' = IF Ok(s)
                     THEN [run EXCEPT
                             !.pc = "close",
                             !.answers = Append(@, s.ret),
                             !.events = Append(@, Event("write", "probe"))]
                   ELSE [run EXCEPT
                           !.pc = "raised", !.raised = s.err,
                           !.events = Append(@, Event("write", "probe"))]
  /\ UNCHANGED <<session, model, call, outcome, diag, port>>

\* the resolver going on to the scan with the probe session still open
Resolver_close_skipped ==
  /\ run.pc = "close"
  /\ run' = [run EXCEPT !.pc = "scan"]
  /\ UNCHANGED <<session, model, call, wire, outcome, dev, diag, port>>

\* line 55: powerSupply.close()
Resolver_close ==
  /\ run.pc = "close"
  /\ run' = [run EXCEPT !.pc = "scan",
                        !.events = Append(@, Event("close", "probe"))]
  /\ UNCHANGED <<session, model, call, wire, outcome, dev, diag, port>>

\* lines 57-63: the scan, the diagnostic and cls(device, debug=debug)
Resolver_select ==
  /\ run.pc = "scan"
  /\ LET ver == run.answers[Len(run.answers)]
         found == ScanClasses(findSubclassesRecursively, 1, ver)
     IN  /\ model' = IF found = <<>> THEN "72-2545" ELSE found[1]
         /\ diag' = (found = <<>>)
  /\ session' = "open"
  /\ run' = [run EXCEPT !.pc = "done",
                        !.events = Append(@, Event("open", "variant"))]
  /\ UNCHANGED <<call, wire, outcome, dev, port>>

\* the caller closes the session it was given; the port is free again
Resolver_release ==
  /\ run.pc = "done"
  /\ session' = "closed"
  /\ run' = IdleRun
  /\ UNCHANGED <<model, call, wire, outcome, dev, diag, port>>

ResolverNext ==
  \/ Resolver_open \/ Resolver_getVersion \/ Resolver_retry
  \/ Resolver_close \/ Resolver_select \/ Resolver_release

ResolverSpec == Init /\ [][ResolverNext]_vars

\* every statement of the resolver returns: the driver sleeps 0.2 s after
\* a write and reads only what is waiting
ResolverLive == Init /\ [][ResolverNext]_vars /\ WF_vars(ResolverNext)

(* ------------- serial_handler.py, statement by statement -------------- *)
\* how many commands are sent and how many reads are started
MaxSends == 2

MaxReads == 2

\* the commands sent: a query and a set command
TxCommands == {Cmd("VSET", <<1>>, "?", <<>>), Cmd("VSET", <<1>>, ":", <<5000>>)}

\* what a device may answer to a query: nothing, the text 1, the text 10,
\* or a byte above 127 (a status byte with output 2 on)
TxAnswers == {<<>>, <<49>>, <<49, 48>>, <<200>>}

\* _sendCommand returning right after ser.write, without time.sleep
Tx_write_noSettle ==
  /\ port.pc = "idle" /\ Len(port.answers) < MaxSends
  /\ \E cmd \in TxCommands, ans \in TxAnswers :
       LET line == [cmd EXCEPT !.eol = @ \o SerialEol]
           sent == IF cmd.sep = "?" THEN ans ELSE <<>>
       IN  port' = [port EXCEPT
                      !.log = Append(@, [e |-> "write", data |-> line]),
                      !.answers = Append(@, sent),
                      !.air = @ \o [k \in 1..Len(sent) |->
                                     [b |-> sent[k], of |-> Len(port.answers) + 1]]]
  /\ UNCHANGED <<session, model, call, wire, outcome, dev, diag, run>>

\* _sendCommand, lines 42-44: self.ser.write((command + serial_eol).encode());
\* the device receives the line and sends its answer
Tx_write ==
  /\ port.pc = "idle" /\ Len(port.answers) < MaxSends
  /\ \E cmd \in TxCommands, ans \in TxAnswers :
       LET line == [cmd EXCEPT !.eol = @ \o SerialEol]
           sent == IF cmd.sep = "?" THEN ans ELSE <<>>
       IN  port' = [port EXCEPT
                      !.pc = "written",
                      !.log = Append(@, [e |-> "write", data |-> line]),
                      !.answers = Append(@, sent),
                      !.air = @ \o [k \in 1..Len(sent) |->
                                     [b |-> sent[k], of |-> Len(port.answers) + 1]]]
  /\ UNCHANGED <<session, model, call, wire, outcome, dev, diag, run>>

\* _sendCommand, line 46: time.sleep(0.2) is over and the method returns
Tx_settle ==
  /\ port.pc = "written"
  /\ port' = [port EXCEPT !.pc = "idle",
                          !.log = Append(@, [e |-> "settle", data |-> <<>>])]
  /\ UNCHANGED <<session, model, call, wire, outcome, dev, diag, run>>

\* a byte the device sent reaches the input buffer (ser.in_waiting grows),
\* whatever the handler is doing
Tx_arrive ==
  /\ port.air # <<>>
  /\ port' = [port EXCEPT
                 !.buf = Append(@, Head(port.air)),
                 !.air = Tail(@),
                 !.ret.arrived = @ \/ port.pc = "reading"]
  /\ UNCHANGED <<session, model, call, wire, outcome, dev, diag, run>>

\* _readBytes line 54 / _readOutput line 70: the method is entered
Tx_read ==
  /\ port.pc = "idle" /\ port.reads < MaxReads
  /\ \E fn \in {"readBytes", "readOutput"} :
       port' = [port EXCEPT
                  !.pc = "reading", !.reads = @ + 1, !.out = <<>>,
                  !.log = Append(@, [e |-> "read", data |-> <<>>]),
                  !.ret = [IdlePort.ret EXCEPT
                             !.fn = fn, !.after = Len(port.answers),
                             !.had = port.buf]]
  /\ UNCHANGED <<session, model, call, wire, outcome, dev, diag, run>>

\* lines 56-57 / 72-73: in_waiting > 0, one byte is read; _readOutput
\* decodes it as ASCII, which raises UnicodeDecodeError above 127
Tx_readByte ==
  /\ port.pc = "reading" /\ port.buf # <<>>
  /\ IF port.ret.fn = "readOutput" /\ Head(port.buf).b > 127
       THEN port' = [port EXCEPT
                       !.pc = "idle", !.buf = Tail(@), !.out = <<>>,
                       !.ret.err = "UnicodeDecodeError",
                       !.ret.left = Tail(port.buf)]
     ELSE port' = [port EXCEPT !.buf = Tail(@),
                               !.out = Append(@, Head(port.buf))]
  /\ UNCHANGED <<session, model, call, wire, outcome, dev, diag, run>>

\* lines 56, 62 / 72, 78: in_waiting is 0, the method returns out
Tx_readReturn ==
  /\ port.pc = "reading" /\ port.buf = <<>>
  /\ port' = [port EXCEPT !.pc = "idle", !.out = <<>>,
                          !.ret.got = port.out, !.ret.left = port.buf]
  /\ UNCHANGED <<session, model, call, wire, outcome, dev, diag, run>>

TransportNext ==
  \/ Tx_write \/ Tx_settle \/ Tx_arrive
  \/ Tx_read \/ Tx_readByte \/ Tx_readReturn

TransportSpec == Init /\ [][TransportNext]_vars

(* ------------------ commands/cli.py: main, stage by stage ------------- *)
\* the exceptions that are instances of TenmaException; NotImplementedError,
\* ValueError and IndexError are not
TenmaExceptions ==
  {"ChannelRange", "VoltageRange", "CurrentRange", "ConfRange", "StepOrder",
   "TrackingMode", "Ch3Preset", "Ch3NoCurrent", "Verification"}

\* the option values a run is started with; 0 stands for an integer option
\* that is absent or zero, which "if voltage:" does not tell apart
CliIdentities ==
  {<<"T">> \o MATCH_STR(m)[1] \o <<"V">> : m \in {"72-2540", "72-13330"}}
    \cup {<<>>}

CliChannels == {1, 3, MaxChannelArg}

CliVoltages == {0, 2010, 5000, 70000}

CliCurrents == {0, 1000, 1001, 20000}

CliConfs == {0, 1, MaxConfArg}

\* a call of T made by main ran from Resume to s: on to the next stage, to
\* the except clause, or past it to the finally clause
CliCall(next, op, args, s) ==
  /\ call' = [op |-> op, args |-> args, mode |-> s.mode, pv |-> 0, pi |-> 0]
  /\ wire' = s.wire
  /\ outcome' = [err |-> s.err, ret |-> s.ret, status |-> s.status]
  /\ dev' = s.dev
  /\ run' = [run EXCEPT
               !.pc = IF s.err = "none" THEN next
                      ELSE IF s.err \in TenmaExceptions THEN "except"
                      ELSE "finally",
               !.raised = s.err]
  /\ UNCHANGED <<session, model, diag, port>>

\* the option of the stage was not given
CliSkip(next) ==
  /\ run' = [run EXCEPT !.pc = next]
  /\ UNCHANGED <<session, model, call, wire, outcome, dev, diag, port>>

\* the state the next call of T starts in: nothing written yet
CliBegin == Begin(dev, call.mode)

\* the methods of T, which the resolver takes from the Tenma72Base hierarchy
T_OFF(s) == self_OFF(model, s)

T_ON(s) ==
  IF Family(model) = "multi" THEN Tenma72_13320_ON(model, s, <<>>)
  ELSE Tenma72Base_ON(s)

T_setOCP(s, enable) ==
  IF Family(model) = "multi" THEN Tenma72_13320_setOCP(s)
  ELSE Tenma72Base_setOCP(s, enable)

T_setOVP(s, enable) ==
  IF Family(model) = "multi" THEN Tenma72_13320_setOVP(s)
  ELSE Tenma72Base_setOVP(s, enable)

T_getStatus(s) ==
  IF Family(model) = "multi" THEN Tenma72_13320_getStatus(s)
  ELSE Tenma72Base_getStatus(s)

T_runningCurrent(s, channel) ==
  IF Family(model) = "multi" THEN Tenma72_13320_runningCurrent(model, s, channel)
  ELSE Tenma72Base_runningCurrent(model, s, channel)

\* lines 76-79: T = instantiate_tenma_class_from_device_response(device)
Cli_main ==
  /\ session = "closed" /\ run.pc = "idle"
  /\ UNCHANGED port
  /\ \E idn \in CliIdentities, mode \in DevModes, pv \in PanelV, pi \in PanelI,
        save \in CliConfs, channel \in CliChannels, script \in BOOLEAN :
       LET d == [Panel(Target(channel), pv, pi) EXCEPT !.idn = idn]
           r == instantiate_tenma_class_from_device_response(Begin(d, "echo"))
       IN  /\ session' = "open"
           /\ model' = r.cls
           /\ diag' = r.diag
           /\ call' = [op |-> "instantiate", args |-> <<>>, mode |-> mode,
                       pv |-> pv, pi |-> pi]
           /\ wire' = r.probe.wire
           /\ outcome' = NoOutcome
           /\ dev' = r.probe.dev
           /\ run' = [IdleRun EXCEPT
                        !.pc = "version",
                        !.opts = [save |-> save, channel |-> channel,
                                  script |-> script]]

\* lines 80-81: if not script: print(T.getVersion())
Cli_version ==
  /\ run.pc = "version"
  /\ IF run.opts.script THEN CliSkip("recallSave")
     ELSE LET s == Tenma72Base_getVersion(CliBegin, <<>>)
          IN  CliCall("recallSave", "getVersion", <<>>, [s EXCEPT !.ret = <<>>])

\* lines 86-91: if save: T.OFF(); T.recallConf(save)
Cli_recallSave ==
  /\ run.pc = "recallSave"
  /\ IF run.opts.save = 0 THEN CliSkip("ocp")
     ELSE CliCall("ocp", "recallConf", <<run.opts.save>>,
            Tenma72Base_recallConf(model, T_OFF(CliBegin), run.opts.save))

\* lines 94-101, with ocp and args["ocp"] read as the value of the
\* --ocp-enable / --ocp-disable option: T.setOCP(ocp)
Cli_ocp ==
  /\ run.pc = "ocp"
  /\ \/ CliSkip("ovp")
     \/ \E enable \in BOOLEAN :
          CliCall("ovp", "setOCP", <<IF enable THEN 1 ELSE 0>>,
                  T_setOCP(CliBegin, enable))

\* lines 103-110: T.setOVP(ovp)
Cli_ovp ==
  /\ run.pc = "ovp"
  /\ \/ CliSkip("beep")
     \/ \E enable \in BOOLEAN :
          CliCall("beep", "setOVP", <<IF enable THEN 1 ELSE 0>>,
                  T_setOVP(CliBegin, enable))

\* lines 112-119: T.setBEEP(beep)
Cli_beep ==
  /\ run.pc = "beep"
  /\ \/ CliSkip("voltage")
     \/ \E enable \in BOOLEAN :
          CliCall("voltage", "setBEEP", <<IF enable THEN 1 ELSE 0>>,
                  Tenma72Base_setBEEP(CliBegin, enable))

\* lines 121-124: if voltage: T.setVoltage(channel, voltage)
Cli_voltage ==
  /\ run.pc = "voltage"
  /\ \E voltage \in CliVoltages :
       IF voltage = 0 THEN CliSkip("current")
       ELSE CliCall("current", "setVoltage", <<run.opts.channel, voltage>>,
              self_setVoltage(model, CliBegin, run.opts.channel, FromInt(voltage)))

\* lines 126-129: if current: T.setCurrent(channel, current)
Cli_current ==
  /\ run.pc = "current"
  /\ \E current \in CliCurrents :
       IF current = 0 THEN CliSkip("saveFlow")
       ELSE CliCall("saveFlow", "setCurrent", <<run.opts.channel, current>>,
              Tenma72Base_setCurrent(model, CliBegin, run.opts.channel, FromInt(current)))

\* lines 131-135: if save: T.saveConfFlow(save, channel)
Cli_saveFlow ==
  /\ run.pc = "saveFlow"
  /\ IF run.opts.save = 0 THEN CliSkip("recall")
     ELSE CliCall("recall", "saveConfFlow", <<run.opts.save, run.opts.channel>>,
            Tenma72Base_saveConfFlow(model, CliBegin, run.opts.save, run.opts.channel))

\* lines 137-147: if recall: T.recallConf(recall); T.readVoltage(channel);
\* T.readCurrent(channel)
Cli_recall ==
  /\ run.pc = "recall"
  /\ \E recall \in CliConfs :
       IF recall = 0 THEN CliSkip("off")
       ELSE CliCall("off", "recallConf", <<recall>>,
              Returning(
                self_readCurrent(model,
                  Tenma72Base_readVoltage(model,
                    Tenma72Base_recallConf(model, CliBegin, recall),
                    run.opts.channel),
                  run.opts.channel),
                <<>>))

\* lines 149-152: if off: T.OFF()
Cli_off ==
  /\ run.pc = "off"
  /\ \/ CliSkip("on")
     \/ CliCall("on", "OFF", <<>>, T_OFF(CliBegin))

\* lines 154-157: if on: T.ON()
Cli_on ==
  /\ run.pc = "on"
  /\ \/ CliSkip("status")
     \/ CliCall("status", "ON", <<>>, T_ON(CliBegin))

\* lines 159-162: if status: print(T.getStatus())
Cli_status ==
  /\ run.pc = "status"
  /\ \/ CliSkip("runningCurrent")
     \/ CliCall("runningCurrent", "getStatus", <<>>, T_getStatus(CliBegin))

\* lines 164-167: if running_current: print(T.runningCurrent(channel))
Cli_runningCurrent ==
  /\ run.pc = "runningCurrent"
  /\ \/ CliSkip("runningVoltage")
     \/ CliCall("runningVoltage", "runningCurrent", <<run.opts.channel>>,
                Returning(T_runningCurrent(CliBegin, run.opts.channel), <<>>))

\* lines 169-172: if running_voltage: print(T.runningVoltage(channel))
Cli_runningVoltage ==
  /\ run.pc = "runningVoltage"
  /\ \/ CliSkip("finally")
     \/ CliCall("finally", "runningVoltage", <<run.opts.channel>>,
                Returning(Tenma72Base_runningVoltage(model, CliBegin, run.opts.channel), <<>>))

\* lines 174-175: except TenmaException as e: print("Lib ERROR: ", repr(e))
Cli_except ==
  /\ run.pc = "except"
  /\ run' = [run EXCEPT !.pc = "finally", !.printed = TRUE]
  /\ UNCHANGED <<session, model, call, wire, outcome, dev, diag, port>>

\* lines 176-180: finally: if T: T.close(); an exception that was not
\* caught leaves main after it
Cli_finally ==
  /\ run.pc = "finally"
  /\ session' = "closed"
  /\ run' = [run EXCEPT !.pc = "exit", !.closes = @ + 1]
  /\ UNCHANGED <<model, call, wire, outcome, dev, diag, port>>

CliNext ==
  \/ Cli_main \/ Cli_version \/ Cli_recallSave
  \/ Cli_ocp \/ Cli_ovp \/ Cli_beep \/ Cli_voltage \/ Cli_current
  \/ Cli_saveFlow \/ Cli_recall \/ Cli_off \/ Cli_on \/ Cli_status
  \/ Cli_runningCurrent \/ Cli_runningVoltage
  \/ Cli_except \/ Cli_finally

CliSpec == Init /\ [][CliNext]_vars

(* ======================= properties of the driver ====================== *)
\* TenmaException raised for a value outside the model's bounds
RangeErrors ==
  {"ChannelRange", "VoltageRange", "CurrentRange", "ConfRange", "StepOrder",
   "TrackingMode", "Ch3Preset"}

\* raised because the model lacks the capability
UnsupportedErrors == {"NotImplemented", "Ch3NoCurrent"}

\* whether the methods of the session's class take a channel argument
HasChannel == Family(model) # "rs485"

ChannelArg == call.args[1]

ValidChannel == HasChannel => ChannelArg \in 1..NCHANNELS(model)

\* the magnitude argument of setVoltage / setCurrent
ValueArg == call.args[Len(call.args)]

OnChannel3 == Family(model) = "multi" /\ ChannelArg = 3

\* wire[k] is the set command stem[ch]:value
IsSet(k, stem, value) ==
  /\ Len(wire) >= k
  /\ wire[k].stem = stem /\ wire[k].sep = ":" /\ wire[k].arg = <<value>>
  /\ wire[k].ch = IF HasChannel THEN <<ChannelArg>> ELSE <<>>

\* wire[k] is the query stem[ch]?
IsQuery(k, stem) ==
  /\ Len(wire) >= k
  /\ wire[k].stem = stem /\ wire[k].sep = "?" /\ wire[k].arg = <<>>
  /\ wire[k].ch = IF HasChannel THEN <<ChannelArg>> ELSE <<>>

\* C1: a call that fails with a range error or an unsupported-capability
\* error has written no command to the transport.
C1_NoWriteBeforeRejection ==
  outcome.err \in RangeErrors \cup UnsupportedErrors => wire = <<>>

\* C2: with a channel outside [1, NCHANNELS], setVoltage, setCurrent,
\* readVoltage and readCurrent fail with the channel range error and the
\* transport has received no write.
C2_BadChannelRejected ==
  (/\ call.op \in {"setVoltage", "setCurrent", "readVoltage", "readCurrent"}
   /\ HasChannel
   /\ (ChannelArg < 1 \/ ChannelArg > NCHANNELS(model)))
  => (outcome.err = "ChannelRange" /\ wire = <<>>)

C2_Witness ==
  /\ call.op = "setCurrent" /\ Family(model) = "multi"
  /\ ChannelArg = NCHANNELS(model) + 1 /\ ValueArg = 0
  /\ outcome.err = "ChannelRange"

\* C3 as stated: on a valid channel setVoltage fails with a range error,
\* writing nothing, exactly when mV < 0 or mV > MAX_MV; 0 and MAX_MV are
\* accepted and a VSET command is written.
C3_VoltageRangeOnly ==
  (call.op = "setVoltage" /\ ValidChannel)
  => /\ (outcome.err \in RangeErrors /\ wire = <<>>)
          <=> (ValueArg < 0 \/ ValueArg > MAX_MV(model))
     /\ ValueArg \in {0, MAX_MV(model)} => IsSet(1, "VSET", ValueArg)

\* C3 amended: on a valid channel setVoltage fails with a range error,
\* writing nothing, exactly when mV < 0 or mV > MAX_MV or, on channel 3 of
\* a three-channel model, mV is not one of 2500, 3300, 5000; on every other
\* channel 0 and MAX_MV are accepted and a VSET command is written.
C3_VoltageRangeAndPresets ==
  (call.op = "setVoltage" /\ ValidChannel)
  => /\ (outcome.err \in RangeErrors /\ wire = <<>>)
          <=> \/ ValueArg < 0
              \/ ValueArg > MAX_MV(model)
              \/ OnChannel3 /\ ValueArg \notin Ch3Presets
     /\ outcome.err \in RangeErrors => wire = <<>>
     /\ (ValueArg \in {0, MAX_MV(model)} /\ ~OnChannel3)
          => IsSet(1, "VSET", ValueArg)

C3_Witness ==
  /\ call.op = "setVoltage" /\ ValidChannel
  /\ ValueArg = MAX_MV(model) /\ IsSet(1, "VSET", MAX_MV(model))
  /\ outcome.err = "none"

\* C4: on a valid channel setCurrent fails with a range error, writing
\* nothing, exactly when mA < 0 or mA > MAX_MA; 0 and MAX_MA pass the range
\* check and an ISET command is written.
C4_CurrentRange ==
  (call.op = "setCurrent" /\ ValidChannel)
  => /\ outcome.err \in RangeErrors
          <=> (ValueArg < 0 \/ ValueArg > MAX_MA(model))
     /\ outcome.err \in RangeErrors => wire = <<>>
     /\ ValueArg \in {0, MAX_MA(model)} => IsSet(1, "ISET", ValueArg)

C4_Witness ==
  /\ call.op = "setCurrent" /\ ValidChannel
  /\ ValueArg = MAX_MA(model) /\ IsSet(1, "ISET", MAX_MA(model))
  /\ outcome.err = "none"

\* C5: for a valid channel and an in-range mV that is a multiple of 10,
\* setVoltage against a device that stores and reports the value returns
\* mV/1000 without a verification error, and against a device that reports
\* another value it raises a verification error.
C5_VoltageRoundTrip ==
  (/\ call.op = "setVoltage" /\ ValidChannel
   /\ ValueArg \in 0..MAX_MV(model) /\ ValueArg % 10 = 0
   /\ OnChannel3 => ValueArg \in Ch3Presets)
  => /\ call.mode = "echo" => (outcome.err = "none" /\ outcome.ret = <<ValueArg>>)
     /\ (call.mode = "reject" /\ call.pv # ValueArg) => outcome.err = "Verification"

\* the value the device reports to the read-back query of the call
Reported ==
  IF call.op = "setVoltage" THEN dev.v[IF HasChannel THEN ChannelArg ELSE 1]
  ELSE dev.i[IF HasChannel THEN ChannelArg ELSE 1]

\* C6: a setVoltage / setCurrent that passed its range checks reads the
\* value back, and fails with a verification error if and only if the
\* value the device reports differs from the requested one.
C6_VerificationIffDifferent ==
  (/\ call.op \in {"setVoltage", "setCurrent"}
   /\ ValidChannel /\ wire # <<>> /\ call.mode # "silent")
  => /\ Len(wire) = 2
     /\ outcome.err = "Verification" <=> Reported # ValueArg

\* C7: when setVoltage or setCurrent fails with a verification error the
\* wire holds the set command once, followed by the read-back query once,
\* and nothing else.
C7_NoRetryNoRestore ==
  (call.op \in {"setVoltage", "setCurrent"} /\ outcome.err = "Verification")
  => /\ Len(wire) = 2
     /\ IF call.op = "setVoltage"
          THEN IsSet(1, "VSET", Fmt2(FromInt(ValueArg))) /\ IsQuery(2, "VSET")
        ELSE IsSet(1, "ISET", ValueArg) /\ IsQuery(2, "ISET")
     /\ call.mode = "echo" => Reported = wire[1].arg[1]

C7_Witness ==
  /\ call.op = "setVoltage" /\ outcome.err = "Verification"
  /\ call.mode = "reject" /\ ValueArg = 5000 /\ Len(wire) = 2

\* the commands of the wire without their channels and values
Steps == [k \in 1..Len(wire) |-> <<wire[k].stem, wire[k].sep>>]

\* C8: on a generic model, with a valid slot and channel and a device that
\* echoes set values, saveConfFlow writes OUT0, VSET?, ISET?, RCL, VSET,
\* (VSET?), ISET, (ISET?), SAV in this order, skipping none.
C8_SaveFlowOrder ==
  (/\ call.op = "saveConfFlow" /\ Family(model) = "base"
   /\ call.args[1] \in 1..NCONFS(model) /\ call.args[2] \in 1..NCHANNELS(model)
   /\ call.mode = "echo")
  => /\ outcome.err = "none"
     /\ Steps = << <<"OUT", "">>, <<"VSET", "?">>, <<"ISET", "?">>, <<"RCL", "">>,
                   <<"VSET", ":">>, <<"VSET", "?">>, <<"ISET", ":">>,
                   <<"ISET", "?">>, <<"SAV", "">> >>

\* the models whose match string occurs in the identity the device gave
Named == {m \in Models : \E j \in 1..Len(MATCH_STR(m)) : Contains(dev.idn, MATCH_STR(m)[j])}

\* C9: when the identity contains the match string of exactly one of the
\* ten supported models, the resolver returns a session of that model.
C9_ResolvesNamedModel ==
  (call.op = "instantiate" /\ Cardinality(Named) = 1) => model \in Named

ArgFromEnd(k) == call.args[Len(call.args) - k]

\* the channel suffix the session's class puts on a command
Suffix == IF HasChannel THEN <<ChannelArg>> ELSE <<>>

\* the line stem[ch]sep(args) as the transport received it
Line(stem, ch, sep, arg) == [Cmd(stem, ch, sep, arg) EXCEPT !.eol = SerialEol]

\* C11: on the variants that implement auto-stepping, startAutoVoltageStep
\* and startAutoCurrentStep with step > stop fail with a range error and
\* write nothing; with step <= stop, a valid channel and an in-range stop
\* value exactly one VASTEP / IASTEP command carrying start, stop, step and
\* step time is written.
C11_AutoStepOrder ==
  (call.op \in {"startAutoVoltageStep", "startAutoCurrentStep"}
     /\ Family(model) # "base")
  => LET volts == call.op = "startAutoVoltageStep"
         max == IF volts THEN MAX_MV(model) ELSE MAX_MA(model)
         stem == IF volts THEN "VASTEP" ELSE "IASTEP"
         start == ArgFromEnd(3)
         stop == ArgFromEnd(2)
         step == ArgFromEnd(1)
         stepTime == ArgFromEnd(0)
     IN  /\ step > stop => (outcome.err \in RangeErrors /\ wire = <<>>)
         /\ (step <= stop /\ ValidChannel /\ stop \in 0..max)
              => /\ outcome.err = "none"
                 /\ wire = <<Line(stem, Suffix, ":", <<start, stop, step, stepTime>>)>>

C11_Witness ==
  /\ call.op = "startAutoVoltageStep" /\ Family(model) = "multi"
  /\ ValidChannel /\ ArgFromEnd(2) = 1000 /\ ArgFromEnd(1) = 1000
  /\ Len(wire) = 1 /\ wire[1].stem = "VASTEP"

\* C12: setOCP and setOVP fail with an unsupported-capability error and
\* write nothing on 72-13320 and 72-13330, for either argument; setLock and
\* setTracking do so on every generic variant; on the generic variants
\* setOCP / setOVP write exactly one command OCP0 / OCP1 / OVP0 / OVP1.
C12_CapabilityGating ==
  /\ (call.op \in {"setOCP", "setOVP"} /\ Family(model) = "multi")
       => (outcome.err \in UnsupportedErrors /\ wire = <<>>)
  /\ (call.op \in {"setLock", "setTracking"} /\ Family(model) = "base")
       => (outcome.err \in UnsupportedErrors /\ wire = <<>>)
  /\ (call.op \in {"setOCP", "setOVP"} /\ Family(model) = "base")
       => /\ outcome.err = "none"
          /\ call.args[1] \in {0, 1}
          /\ wire = <<Line(IF call.op = "setOCP" THEN "OCP" ELSE "OVP",
                            <<>>, "", call.args)>>

C12_Witness ==
  /\ call.op = "setOCP" /\ model = "72-13330" /\ call.args = <<0>>
  /\ outcome.err = "NotImplemented" /\ wire = <<>>

\* C13: every voltage carried by a command written to the transport lies
\* in [0, MAX_MV], every current in [0, MAX_MA] and every channel suffix in
\* [1, NCHANNELS] of the session's variant; this covers VSET / ISET, the
\* start, stop and step of VASTEP / IASTEP and the value of VSTEP / ISTEP.
C13_WrittenValuesInRange ==
  model \in Models
  => \A k \in 1..Len(wire) :
       LET c == wire[k]
           values == IF c.stem \in {"VASTEP", "IASTEP"} THEN 1..3 ELSE 1..1
       IN  /\ \A j \in 1..Len(c.ch) : c.ch[j] \in 1..NCHANNELS(model)
           /\ (c.sep = ":" /\ c.stem \in {"VSET", "VASTEP", "VSTEP"})
                => \A j \in values : c.arg[j] \in 0..MAX_MV(model)
           /\ (c.sep = ":" /\ c.stem \in {"ISET", "IASTEP", "ISTEP"})
                => \A j \in values : c.arg[j] \in 0..MAX_MA(model)

\* C14: saveConf and recallConf fail with a range error and write nothing
\* when slot < 1 or slot > NCONFS, and write exactly one SAV / RCL command
\* naming the slot otherwise; on the variants with NCONFS = 0 saveConfFlow
\* fails too, and no SAV or RCL command is ever written.
C14_SlotRange ==
  model \in Models
  => /\ call.op \in {"saveConf", "recallConf"}
          => IF call.args[1] < 1 \/ call.args[1] > NCONFS(model)
               THEN outcome.err \in RangeErrors /\ wire = <<>>
             ELSE /\ outcome.err = "none"
                  /\ wire = <<Line(IF call.op = "saveConf" THEN "SAV" ELSE "RCL",
                                    <<>>, IF HasChannel THEN "" ELSE ":",
                                    <<call.args[1]>>)>>
     /\ NCONFS(model) = 0
          => /\ call.op = "saveConfFlow"
                  => (outcome.err \in RangeErrors /\ wire = <<>>)
             /\ \A k \in 1..Len(wire) : wire[k].stem \notin {"SAV", "RCL"}

C14_Witness ==
  /\ call.op = "recallConf" /\ NCONFS(model) > 0
  /\ call.args = <<NCONFS(model)>>
  /\ Len(wire) = 1 /\ wire[1].stem = "RCL"

\* C15: on 72-13320 and 72-13330 setVoltage(3, mV) fails with a range
\* error for every mV outside {2500, 3300, 5000} and takes the normal
\* set-and-verify path for these three; readCurrent(3) and
\* runningCurrent(3) fail without writing; channels 1 and 2 have neither
\* restriction.
C15_ThirdChannel ==
  Family(model) = "multi"
  => /\ (call.op = "setVoltage" /\ ChannelArg = 3)
          => IF ValueArg \notin Ch3Presets
               THEN outcome.err \in RangeErrors /\ wire = <<>>
             ELSE /\ Len(wire) = 2
                  /\ IsSet(1, "VSET", ValueArg) /\ IsQuery(2, "VSET")
                  /\ outcome.err = "Verification" <=> Reported # ValueArg
     /\ (call.op \in {"readCurrent", "runningCurrent"} /\ ChannelArg = 3)
          => (outcome.err # "none" /\ wire = <<>>)
     /\ (call.op = "setVoltage" /\ ChannelArg \in {1, 2}
           /\ ValueArg \in 0..MAX_MV(model))
          => (IsSet(1, "VSET", Fmt2(FromInt(ValueArg))) /\ IsQuery(2, "VSET"))
     /\ (call.op \in {"readCurrent", "runningCurrent"} /\ ChannelArg \in {1, 2})
          => /\ Len(wire) = 1
             /\ IsQuery(1, IF call.op = "readCurrent" THEN "ISET" ELSE "IOUT")

C15_Witness ==
  /\ call.op = "setVoltage" /\ Family(model) = "multi"
  /\ ChannelArg = 3 /\ ValueArg = 3300
  /\ Len(wire) = 2 /\ outcome.err = "none"

\* C16: setTracking(mode) writes exactly one command TRACK0, TRACK1 or
\* TRACK2 for mode 0, 1, 2 on a variant with tracking and fails with a
\* range error, writing nothing, for any other mode; on a variant without
\* tracking it fails with an unsupported-capability error for every mode.
C16_TrackingModes ==
  call.op = "setTracking"
  => IF Family(model) = "multi"
       THEN IF call.args[1] \in {0, 1, 2}
              THEN /\ outcome.err = "none"
                   /\ wire = <<Line("TRACK", <<>>, "", call.args)>>
            ELSE outcome.err \in RangeErrors /\ wire = <<>>
     ELSE outcome.err \in UnsupportedErrors /\ wire = <<>>

\* C17: on the 72-13360 family saveConfFlow(slot) does what saveConf(slot)
\* does: for a valid slot the single command SAV:{slot} is written and
\* nothing else, for an invalid slot it fails with a range error and
\* writes nothing.
C17_DirectSave ==
  (call.op = "saveConfFlow" /\ Family(model) = "rs485")
  => LET slot == call.args[1]
         s == Tenma72_13360_saveConf(model, Begin(Panel(1, 0, 0), "echo"), slot)
     IN  /\ wire = s.wire /\ outcome.err = s.err
         /\ IF slot \in 1..NCONFS(model)
              THEN /\ outcome.err = "none"
                   /\ wire = <<Line("SAV", <<>>, ":", <<slot>>)>>
            ELSE outcome.err \in RangeErrors /\ wire = <<>>

C17_Witness ==
  /\ call.op = "saveConfFlow" /\ Family(model) = "rs485"
  /\ call.args = <<NCONFS(model)>>
  /\ wire = <<Line("SAV", <<>>, ":", <<NCONFS(model)>>)>>

(* ----------------------- resolver sessions ---------------------------- *)
\* the number of sessions open on the port after the first n events
RECURSIVE OpenAfter(_, _)
OpenAfter(events, n) ==
  IF n = 0 THEN 0
  ELSE OpenAfter(events, n - 1)
         + (IF events[n].what = "open" THEN 1
            ELSE IF events[n].what = "close" THEN 0 - 1 ELSE 0)

\* C19: the probe session is closed before the session of the selected
\* variant is opened, nothing is written on the probe session after its
\* close, at no point of the resolution are two sessions open on the
\* port, and on return exactly one session, the variant's, is open.
C19_SessionDiscipline ==
  LET ev == run.events
  IN  /\ \A n \in 0..Len(ev) : OpenAfter(ev, n) \in {0, 1}
      /\ \A k \in 1..Len(ev) :
           ev[k] = Event("open", "variant")
             => \E j \in 1..(k - 1) : ev[j] = Event("close", "probe")
      /\ \A j \in 1..Len(ev), k \in 1..Len(ev) :
           (ev[j] = Event("close", "probe") /\ k > j) => ev[k].on # "probe"
      /\ run.pc = "done"
           => /\ OpenAfter(ev, Len(ev)) = 1
              /\ ev[Len(ev)] = Event("open", "variant")
              /\ session = "open"

C19_Witness ==
  /\ run.pc = "done" /\ Len(run.events) = 5
  /\ run.events[4] = Event("close", "probe")
  /\ run.events[5] = Event("open", "variant")

\* what holds of the identity queries at every point of a resolution
QueriesBounded ==
  /\ Len(wire) <= 2
  /\ \A k \in 1..Len(wire) : wire[k].stem = "*IDN"
  /\ Len(run.answers) = Len(wire) - (IF run.pc = "raised" THEN 1 ELSE 0)
  /\ Len(wire) = 2 => (run.answers[1] = <<>> /\ wire[2].eol # wire[1].eol)
  /\ (run.pc \in {"close", "scan", "done"} /\ run.answers[1] # <<>>)
       => Len(wire) = 1

\* C20: the resolver terminates (it returns, or the exception of a query
\* leaves it) after writing at most two identity queries: the second is sent only if the first returned the empty string,
\* with a line terminator different from the first one's, and is never
\* followed by a third; a non-empty first answer means exactly one query.
C20_AtMostTwoQueries ==
  /\ [](run.pc # "idle" => QueriesBounded)
  /\ (run.pc = "getVersion") ~> (run.pc \in {"done", "raised"})

C20_Witness ==
  /\ run.pc = "done" /\ Len(wire) = 2
  /\ run.answers[1] = <<>> /\ run.answers[2] # <<>>
  /\ wire[1].eol = <<"LF">> /\ wire[2].eol = <<"LF", "LF">>

\* C30: on every path out of the resolver, also when an identity query
\* raises while the probe session is open, the probe session has been
\* closed: the resolver neither returns nor raises with the probe session
\* still holding the serial port.
C30_ProbeClosedOnExit ==
  run.pc \in {"done", "raised"}
  => \E k \in 1..Len(run.events) : run.events[k] = Event("close", "probe")

(* ------------------------- command-line exit -------------------------- *)
\* C18: once the resolver has returned a session, however the run ends
\* (normal completion, range error, verification error, unsupported-
\* capability error) a library-level error message has been printed if an
\* error occurred, and the session has been closed exactly once.
C18_ErrorPrintedSessionClosed ==
  run.pc = "exit"
  => /\ outcome.err \in RangeErrors \cup UnsupportedErrors \cup {"Verification"}
          => run.printed
     /\ outcome.err = "none" => ~run.printed
     /\ run.closes = 1 /\ session = "closed"

(* ------------------- selection, output, status ------------------------ *)
\* the positions, in registration order, of the registered variants one of
\* whose match strings is a substring of the identity
Matching(idn) ==
  {k \in 1..Len(findSubclassesRecursively) :
     \E j \in 1..Len(MATCH_STR(findSubclassesRecursively[k])) :
        Contains(idn, MATCH_STR(findSubclassesRecursively[k])[j])}

\* C21: the variant selected is a function of the identity string alone:
\* the first registered variant, in definition order, one of whose match
\* strings is a substring of the identity (the default variant when there
\* is none), so two resolutions seeing the same identity select the same
\* variant.
C21_FirstMatchWins ==
  call.op = "instantiate"
  => IF Matching(dev.idn) = {} THEN model = "72-2545"
     ELSE \E k \in Matching(dev.idn) :
            /\ model = findSubclassesRecursively[k]
            /\ \A j \in Matching(dev.idn) : k <= j

C21_Witness ==
  /\ call.op = "instantiate" /\ Cardinality(Matching(dev.idn)) = 2
  /\ model = "72-2540"

\* C22: ON / OFF write OUT1 / OUT0 without a channel on the single-channel
\* variants and OUT:1 / OUT:0 on the 72-13360 family; the multi-channel
\* variants write OUT{ch}:1 / OUT{ch}:0 for a valid channel, fail with a
\* range error writing nothing for a channel outside [1, NCHANNELS], and
\* with no channel write one command that names every channel of the model.
C22_OutputWireForm ==
  call.op \in {"ON", "OFF"}
  => LET v == IF call.op = "ON" THEN 1 ELSE 0
     IN  CASE Family(model) = "base" -> wire = <<Line("OUT", <<>>, "", <<v>>)>>
           [] Family(model) = "rs485" -> wire = <<Line("OUT", <<>>, ":", <<v>>)>>
           [] OTHER ->
                IF call.args = <<>>
                  THEN /\ Len(wire) = 1
                       /\ wire[1].stem = "OUT" /\ wire[1].sep = ":"
                       /\ wire[1].arg = <<v>>
                       /\ {wire[1].ch[j] : j \in 1..Len(wire[1].ch)}
                            = 1..NCHANNELS(model)
                ELSE IF ChannelArg \in 1..NCHANNELS(model)
                  THEN wire = <<Line("OUT", <<ChannelArg>>, ":", <<v>>)>>
                ELSE outcome.err \in RangeErrors /\ wire = <<>>

\* bit k of b is set
Has(b, k) == b % Pow2(k + 1) >= Pow2(k)

OnOff(b, k) == IF Has(b, k) THEN "True" ELSE "False"

\* C23: the status dictionary depends only on the first byte b the device
\* answers (what follows it is ignored) and follows the layout of the
\* variant for every b in 0..255: ch1Mode / ch2Mode are C.V iff bit 0 /
\* bit 1 is set; on the generic variants bits 3..2 = 00, 01, 11 are
\* Independent, Series, Parallel and 10 is Unknown, and beep / lock / out
\* are bits 4 / 5 / 6; on the three-channel variants 10 is Parallel and 11
\* Unknown, and out1 / out2 are bits 6 / 7.
C23_StatusDecoding ==
  (call.op = "getStatus" /\ call.mode = "echo"
     /\ Family(model) \in {"base", "multi"})
  => LET b == dev.status
         st == outcome.status
         hi == Has(b, 3)
         lo == Has(b, 2)
     IN  /\ outcome.err = "none"
         /\ st.ch1Mode = "C.V" <=> Has(b, 0)
         /\ st.ch1Mode = "C.C" <=> ~Has(b, 0)
         /\ st.ch2Mode = "C.V" <=> Has(b, 1)
         /\ st.ch2Mode = "C.C" <=> ~Has(b, 1)
         /\ st.Tracking = "Independent" <=> (~hi /\ ~lo)
         /\ st.Tracking = "Tracking Series" <=> (~hi /\ lo)
         /\ st.out = OnOff(b, 6)
         /\ IF Family(model) = "base"
              THEN /\ st.Tracking = "Tracking Parallel" <=> (hi /\ lo)
                   /\ st.Tracking = "Unknown" <=> (hi /\ ~lo)
                   /\ st.beep = OnOff(b, 4) /\ st.lock = OnOff(b, 5)
              ELSE /\ st.Tracking = "Tracking Parallel" <=> (hi /\ ~lo)
                   /\ st.Tracking = "Unknown" <=> (hi /\ lo)
                   /\ st.out2 = OnOff(b, 7)

C23_Witness ==
  /\ call.op = "getStatus" /\ Family(model) = "multi"
  /\ dev.status = 200 /\ dev.trail = <<10>>
  /\ outcome.status.Tracking = "Tracking Parallel"
  /\ outcome.status.out2 = "True"

(* --------------------------- save flow, errors ------------------------ *)
Saved == \E k \in 1..Len(wire) : wire[k].stem = "SAV"

\* C26: in saveConfFlow on a generic model SAV is written only if every
\* earlier step succeeded: a call that ends in an error (invalid slot or
\* channel, a failed read, a failed VSET or ISET read-back) has written no
\* SAV, and a call that wrote SAV wrote it last, after all eight earlier
\* commands, for a valid slot and channel.
C26_SaveOnlyAfterSuccess ==
  (call.op = "saveConfFlow" /\ Family(model) = "base")
  => /\ outcome.err # "none" => ~Saved
     /\ Saved => /\ outcome.err = "none"
                 /\ call.args[1] \in 1..NCONFS(model)
                 /\ call.args[2] \in 1..NCHANNELS(model)
                 /\ Steps = << <<"OUT", "">>, <<"VSET", "?">>, <<"ISET", "?">>,
                               <<"RCL", "">>, <<"VSET", ":">>, <<"VSET", "?">>,
                               <<"ISET", ":">>, <<"ISET", "?">>, <<"SAV", "">> >>

C26_Witness ==
  /\ call.op = "saveConfFlow" /\ Family(model) = "base"
  /\ outcome.err = "Verification" /\ Len(wire) >= 6 /\ ~Saved

\* C27: for every variant, valid channel and integer mA in [0, MAX_MA],
\* against a device that stores the value of the ISET command and reports
\* it on the ISET query that follows, setCurrent returns mA / 1000 amps
\* and raises no verification error.
C27_CurrentRoundTrip ==
  (/\ call.op = "setCurrent" /\ call.mode = "echo"
   /\ ValidChannel /\ ~OnChannel3
   /\ ValueArg \in 0..MAX_MA(model))
  => outcome.err = "none" /\ outcome.ret = <<ValueArg>>

\* the kinds of error the library declares
DeclaredErrors == RangeErrors \cup UnsupportedErrors \cup {"Verification"}

\* C29: every driver operation returns normally or fails with one of the
\* declared kinds (connection, range, verification, unsupported); in
\* particular getStatus, readVoltage, readCurrent, runningVoltage and
\* runningCurrent do so when the device's answer is empty at read time.
C29_EmptyAnswer ==
  (/\ call.op \in {"getStatus", "readVoltage", "readCurrent",
                   "runningVoltage", "runningCurrent"}
   /\ call.mode = "silent")
  => outcome.err \in {"none"} \cup DeclaredErrors

(* ------------------------------ transport ----------------------------- *)
\* the number of commands sent
Sends == Len(port.answers)

IsWrite(x) == x.e = "write"

\* the lines written so far, in order
Writes == SelectSeq(port.log, IsWrite)

\* a read has returned or raised
ReadOver == port.ret.fn # "none" /\ port.pc # "reading"

Payload(bytes) == [k \in 1..Len(bytes) |-> bytes[k].b]

\* C24: every send writes the command followed by the configured line
\* terminator as one write, and the settle delay follows that write before
\* the send returns: in the sequence of writes, settle delays and reads of
\* a handler each write is followed at once by its settle delay, so no read
\* starts between a write and its delay and the command a read answers has
\* been settled.
C24_SettleAfterEveryWrite ==
  /\ Len(Writes) = Sends
  /\ \A k \in 1..Len(port.log) :
       /\ port.log[k].e = "write"
            => /\ port.log[k].data \in
                    {[c EXCEPT !.eol = SerialEol] : c \in TxCommands}
               /\ IF k < Len(port.log) THEN port.log[k + 1].e = "settle"
                  ELSE port.pc = "written"
       /\ (port.log[k].e = "read" /\ k > 1)
            => port.log[k - 1].e \in {"settle", "read"}
  /\ port.pc = "written" => port.log[Len(port.log)].e = "write"

C24_Witness ==
  /\ ReadOver /\ port.ret.got # <<>>
  /\ \E k \in 1..Len(port.log) :
       /\ k + 2 <= Len(port.log)
       /\ port.log[k].e = "write" /\ port.log[k + 1].e = "settle"
       /\ port.log[k + 2].e = "read"

\* C25: _readBytes and _readOutput return exactly the bytes that were
\* buffered when they were called, in arrival order, and leave the input
\* buffer empty, if nothing arrives during the call; with nothing buffered
\* they return an empty result.
C25_ReadsDrain ==
  (ReadOver /\ ~port.ret.arrived)
  => /\ port.ret.err = "none"
     /\ port.ret.got = port.ret.had
     /\ port.ret.left = <<>>

\* C28: what a read following a query returns is exactly the device's
\* answer to that query: all of it, and no byte sent in answer to an
\* earlier command.
C28_AnswerToOwnCommand ==
  (/\ ReadOver /\ port.ret.err = "none"
   /\ port.ret.after >= 1 /\ Writes[port.ret.after].data.sep = "?")
  => /\ Payload(port.ret.got) = port.answers[port.ret.after]
     /\ \A k \in 1..Len(port.ret.got) : port.ret.got[k].of = port.ret.after

====
